---------------------------- MODULE Spec2Model ----------------------------
(***************************************************************************)
(* Model of the FullCarts shrinkflation pipeline:                          *)
(*   src/reddit_public_scraper.py  (public JSON / Pullpush scraper,        *)
(*                                  staging upsert, promotion engine)      *)
(*   src/reddit_scraper.py         (PRAW scraper, local staging queue)     *)
(*                                                                         *)
(* Representation.  A Python str is a tuple of one-character strings       *)
(* (<<"o","z">> is "oz"); None and the empty string are both <<>>, as both *)
(* are falsy in every test the code makes.  An optional number is <<>> or  *)
(* <<n>>.  A text is a sequence of tokens, a token being a number (a run   *)
(* of digits) or a word (any other run of characters, possibly with one    *)
(* inner space as in "fl oz"); the text the code sees is the tokens joined *)
(* by single spaces.  The regular expressions are modelled on tokens: \s*  *)
(* and \s+ match the joining space, an alternation captures the first      *)
(* alternative (in pattern order) that fits.  Numbers are integers; the    *)
(* non-ASCII alternatives of the patterns are outside the alphabet.        *)
(***************************************************************************)
EXTENDS Integers, Sequences, FiniteSets, TLC

---------------------------------------------------------------------------
(* Bounds of the model *)

\* Longest text, in phrases, that SpecParse feeds to parse_text.
MaxPhrases == 3

---------------------------------------------------------------------------
(* Python values *)

None == <<>>

Some(v) == <<v>>

IsSet(o) == o # <<>>

Val(o) == o[1]

LowerAlpha == <<"a","b","c","d","e","f","g","h","i","j","k","l","m",
                "n","o","p","q","r","s","t","u","v","w","x","y","z">>

UpperAlpha == <<"A","B","C","D","E","F","G","H","I","J","K","L","M",
                "N","O","P","Q","R","S","T","U","V","W","X","Y","Z">>

DigitChars == <<"0","1","2","3","4","5","6","7","8","9">>

IsUpper(c) == \E i \in 1..26 : UpperAlpha[i] = c

IsLower(c) == \E i \in 1..26 : LowerAlpha[i] = c

IsDigit(c) == \E i \in 1..10 : DigitChars[i] = c

\* str.lower() on one character
LowerChar(c) == IF IsUpper(c) THEN LowerAlpha[CHOOSE i \in 1..26 : UpperAlpha[i] = c] ELSE c

UpperChar(c) == IF IsLower(c) THEN UpperAlpha[CHOOSE i \in 1..26 : LowerAlpha[i] = c] ELSE c

\* str.lower()
Lower(s) == [i \in 1..Len(s) |-> LowerChar(s[i])]

\* str.title(): a letter is upper-cased after a non-letter, lower-cased after a letter
Title(s) ==
  [i \in 1..Len(s) |->
     IF i = 1 \/ ~(IsUpper(s[i-1]) \/ IsLower(s[i-1]))
     THEN UpperChar(s[i]) ELSE LowerChar(s[i])]

\* str.strip() for the blank and the newline
RECURSIVE LStrip(_)
LStrip(s) == IF s # <<>> /\ Head(s) \in {" ", "\n"} THEN LStrip(Tail(s)) ELSE s

RECURSIVE RStripWs(_)
RStripWs(s) ==
  IF s # <<>> /\ s[Len(s)] \in {" ", "\n"} THEN RStripWs(SubSeq(s, 1, Len(s) - 1)) ELSE s

Strip(s) == RStripWs(LStrip(s))

\* str.rstrip("s"): every trailing "s" goes
RECURSIVE RStripS(_)
RStripS(s) == IF s # <<>> /\ s[Len(s)] = "s" THEN RStripS(SubSeq(s, 1, Len(s) - 1)) ELSE s

HasPrefix(s, p) == Len(p) <= Len(s) /\ SubSeq(s, 1, Len(p)) = p

HasSuffix(s, p) == Len(p) <= Len(s) /\ SubSeq(s, Len(s) - Len(p) + 1, Len(s)) = p

\* `p in s`
Contains(s, p) == \E i \in 1..(Len(s) - Len(p) + 1) : SubSeq(s, i, i + Len(p) - 1) = p

\* \w of the re module
IsWordChar(c) == IsUpper(c) \/ IsLower(c) \/ IsDigit(c) \/ c = "_"

\* re.search(r"\b(p)\b", s, re.IGNORECASE) for a literal p that starts and ends in \w
ContainsWord(s, p) ==
  \E i \in 1..(Len(s) - Len(p) + 1) :
     /\ Lower(SubSeq(s, i, i + Len(p) - 1)) = p
     /\ (i = 1 \/ ~IsWordChar(s[i-1]))
     /\ (i + Len(p) - 1 = Len(s) \/ ~IsWordChar(s[i + Len(p)]))

\* the decimal digits of a natural number
RECURSIVE Digits(_)
Digits(n) == IF n < 10 THEN <<DigitChars[n + 1]>> ELSE Digits(n \div 10) \o <<DigitChars[(n % 10) + 1]>>

---------------------------------------------------------------------------
(* Texts *)

\* A token of a text: a number or a word.
Num(n) == [num |-> TRUE, v |-> n, w |-> <<>>, glue |-> FALSE]

Word(w) == [num |-> FALSE, v |-> 0, w |-> w, glue |-> FALSE]

\* A word written right after a number, with no blank between ("52oz").  Every
\* pattern has \s* at that place, so only the rendered string differs.
Glued(w) == [num |-> FALSE, v |-> 0, w |-> w, glue |-> TRUE]

TokenChars(t) == IF t.num THEN Digits(t.v) ELSE t.w

\* The string a token sequence stands for: the tokens joined by single blanks;
\* the newline token and a glued word join without blanks.
NL == Word(<<"\n">>)

RECURSIVE Render(_)
Render(toks) ==
  IF toks = <<>> THEN <<>>
  ELSE IF Len(toks) = 1 THEN TokenChars(toks[1])
  ELSE IF toks[1] = NL \/ toks[2] = NL \/ toks[2].glue THEN TokenChars(toks[1]) \o Render(Tail(toks))
  ELSE TokenChars(toks[1]) \o <<" ">> \o Render(Tail(toks))

\* What the size and price patterns see: the newline is whitespace to them.
RECURSIVE Spaced(_)
Spaced(toks) ==
  IF toks = <<>> THEN <<>>
  ELSE IF Head(toks) = NL THEN Spaced(Tail(toks))
  ELSE <<Head(toks)>> \o Spaced(Tail(toks))

---------------------------------------------------------------------------
(* Lexicon and pattern bank.  Each pattern's alternation is listed in      *)
(* pattern order with x[s]? expanded greedily (plural first) and \.?\s*    *)
(* expanded to its four spellings.  KNOWN_BRANDS and SHRINK_KEYWORDS are   *)
(* order-preserving excerpts of the source lists.                          *)

UNIT_PATTERN ==
  << <<"o","z">>, <<"f","l","."," ","o","z">>, <<"f","l",".","o","z">>,
     <<"f","l"," ","o","z">>, <<"f","l","o","z">>, <<"o","u","n","c","e","s">>,
     <<"o","u","n","c","e">>, <<"l","b","s">>, <<"l","b">>,
     <<"p","o","u","n","d","s">>, <<"p","o","u","n","d">>, <<"g">>,
     <<"g","r","a","m","s">>, <<"g","r","a","m">>, <<"k","g">>,
     <<"m","l">>, <<"l","i","t","e","r","s">>, <<"l","i","t","e","r">>,
     <<"l">>, <<"c","t">>, <<"c","o","u","n","t">>,
     <<"p","a","c","k">>, <<"p","i","e","c","e","s">>, <<"p","i","e","c","e">>,
     <<"s","h","e","e","t","s">>, <<"s","h","e","e","t">>, <<"r","o","l","l","s">>,
     <<"r","o","l","l">>, <<"s","q","."," ","f","t">>, <<"s","q",".","f","t">>,
     <<"s","q"," ","f","t">>, <<"s","q","f","t">>, <<"p","t">>,
     <<"p","i","n","t","s">>, <<"p","i","n","t">>, <<"q","t">>,
     <<"q","u","a","r","t","s">>, <<"q","u","a","r","t">>, <<"g","a","l">>,
     <<"g","a","l","l","o","n","s">>, <<"g","a","l","l","o","n">> >>

FROM_TO_UNITS ==
  << <<"o","z">>, <<"f","l","."," ","o","z">>, <<"f","l",".","o","z">>,
     <<"f","l"," ","o","z">>, <<"f","l","o","z">>, <<"o","u","n","c","e","s">>,
     <<"o","u","n","c","e">>, <<"l","b","s">>, <<"l","b">>,
     <<"p","o","u","n","d","s">>, <<"p","o","u","n","d">>, <<"g">>,
     <<"g","r","a","m","s">>, <<"g","r","a","m">>, <<"k","g">>,
     <<"m","l">>, <<"c","t">>, <<"c","o","u","n","t">>,
     <<"p","a","c","k">>, <<"s","h","e","e","t","s">>, <<"s","h","e","e","t">>,
     <<"r","o","l","l","s">>, <<"r","o","l","l">>, <<"p","t">>,
     <<"p","i","n","t","s">>, <<"p","i","n","t">>, <<"q","t">>,
     <<"q","u","a","r","t","s">>, <<"q","u","a","r","t">>, <<"g","a","l">>,
     <<"g","a","l","l","o","n","s">>, <<"g","a","l","l","o","n">> >>

ARROW_UNITS ==
  << <<"o","z">>, <<"f","l","."," ","o","z">>, <<"f","l",".","o","z">>,
     <<"f","l"," ","o","z">>, <<"f","l","o","z">>, <<"g">>,
     <<"g","r","a","m","s">>, <<"g","r","a","m">>, <<"m","l">>,
     <<"l","b","s">>, <<"l","b">>, <<"c","t">>,
     <<"c","o","u","n","t">>, <<"s","h","e","e","t","s">>, <<"s","h","e","e","t">>,
     <<"r","o","l","l","s">>, <<"r","o","l","l">> >>

LEGACY_UNIT_PATTERN ==
  << <<"o","z">>, <<"f","l","."," ","o","z">>, <<"f","l",".","o","z">>,
     <<"f","l"," ","o","z">>, <<"f","l","o","z">>, <<"o","u","n","c","e","s">>,
     <<"o","u","n","c","e">>, <<"l","b","s">>, <<"l","b">>,
     <<"p","o","u","n","d","s">>, <<"p","o","u","n","d">>, <<"g">>,
     <<"g","r","a","m","s">>, <<"g","r","a","m">>, <<"m","l">>,
     <<"l","i","t","e","r","s">>, <<"l","i","t","e","r">>, <<"c","t">>,
     <<"c","o","u","n","t">>, <<"p","a","c","k">>, <<"p","i","e","c","e","s">>,
     <<"p","i","e","c","e">>, <<"s","h","e","e","t","s">>, <<"s","h","e","e","t">> >>

LEGACY_FROM_TO_UNITS ==
  << <<"o","z">>, <<"f","l","."," ","o","z">>, <<"f","l",".","o","z">>,
     <<"f","l"," ","o","z">>, <<"f","l","o","z">>, <<"o","u","n","c","e","s">>,
     <<"o","u","n","c","e">>, <<"l","b","s">>, <<"l","b">>,
     <<"p","o","u","n","d","s">>, <<"p","o","u","n","d">>, <<"g">>,
     <<"g","r","a","m","s">>, <<"g","r","a","m">>, <<"m","l">>,
     <<"c","t">>, <<"c","o","u","n","t">> >>

FROM_TO_CUES ==
  << <<"f","r","o","m">>, <<"w","a","s">>, <<"w","e","n","t"," ","f","r","o","m">>,
     <<"u","s","e","d"," ","t","o"," ","b","e">>, <<"p","r","e","v","i","o","u","s","l","y">>, <<"o","l","d",":">>,
     <<"o","l","d">>, <<"o","r","i","g","i","n","a","l","l","y">>, <<"s","t","a","r","t","e","d"," ","a","t">> >>

LEGACY_FROM_TO_CUES ==
  << <<"f","r","o","m">>, <<"w","a","s">>, <<"w","e","n","t"," ","f","r","o","m">>,
     <<"u","s","e","d"," ","t","o"," ","b","e">>, <<"p","r","e","v","i","o","u","s","l","y">>, <<"o","l","d",":">>,
     <<"o","l","d">> >>

FROM_TO_CONNECTORS ==
  << <<"t","o">>, <<"n","o","w">>, <<"-",">">>,
     <<"-","-",">">>, <<"-">>, <<"d","o","w","n"," ","t","o">>,
     <<"r","e","d","u","c","e","d"," ","t","o">>, <<"s","h","r","u","n","k"," ","t","o">>, <<"c","h","a","n","g","e","d"," ","t","o">> >>

LEGACY_FROM_TO_CONNECTORS ==
  << <<"t","o">>, <<"n","o","w">>, <<"-",">">>,
     <<"-">> >>

ARROW_CONNECTORS ==
  << <<"-",">">>, <<"-","-",">">>, <<"t","o">>,
     <<"v","s",".">>, <<"v","s">>, <<"v","e","r","s","u","s">>,
     <<"d","o","w","n"," ","t","o">> >>

KNOWN_BRANDS ==
  << <<"t","r","o","p","i","c","a","n","a">>, <<"l","a","y","s">>, <<"d","o","r","i","t","o","s">>,
     <<"h","e","i","n","z">>, <<"h","e","i","n","z"," ","k","e","t","c","h","u","p">>, <<"p","o","s","t">>,
     <<"a","l","l">> >>

LEGACY_KNOWN_BRANDS ==
  << <<"t","r","o","p","i","c","a","n","a">>, <<"l","a","y","s">>, <<"d","o","r","i","t","o","s">>,
     <<"h","e","i","n","z">>, <<"h","e","i","n","z"," ","k","e","t","c","h","u","p">>, <<"p","o","s","t">> >>

SHRINK_KEYWORDS ==
  << <<"s","h","r","i","n","k","f","l","a","t","i","o","n">>, <<"s","h","r","u","n","k">>, <<"s","m","a","l","l","e","r">>,
     <<"r","e","d","u","c","e","d">>, <<"l","e","s","s">>, <<"s","a","m","e"," ","p","r","i","c","e">>,
     <<"u","s","e","d"," ","t","o"," ","b","e">>, <<"w","e","n","t"," ","f","r","o","m">> >>

LEGACY_SHRINK_KEYWORDS ==
  << <<"s","h","r","i","n","k","f","l","a","t","i","o","n">>, <<"s","h","r","u","n","k">>, <<"s","m","a","l","l","e","r">>,
     <<"r","e","d","u","c","e","d">>, <<"l","e","s","s">>, <<"s","a","m","e"," ","p","r","i","c","e">> >>

UnitMapping ==
  << <<<<"f","l"," ","o","z">>, <<"f","l"," ","o","z">>>>,
     <<<<"f","l","."," ","o","z">>, <<"f","l"," ","o","z">>>>,
     <<<<"o","u","n","c","e">>, <<"o","z">>>>,
     <<<<"p","o","u","n","d">>, <<"l","b">>>>,
     <<<<"g","r","a","m">>, <<"g">>>>,
     <<<<"l","i","t","e","r">>, <<"l">>>>,
     <<<<"p","i","n","t">>, <<"p","t">>>>,
     <<<<"q","u","a","r","t">>, <<"q","t">>>>,
     <<<<"g","a","l","l","o","n">>, <<"g","a","l">>>>,
     <<<<"s","h","e","e","t">>, <<"s","h","e","e","t","s">>>>,
     <<<<"r","o","l","l">>, <<"r","o","l","l","s">>>>,
     <<<<"p","i","e","c","e">>, <<"c","t">>>>,
     <<<<"s","q"," ","f","t">>, <<"s","q"," ","f","t">>>>,
     <<<<"s","q","."," ","f","t">>, <<"s","q"," ","f","t">>>> >>

---------------------------------------------------------------------------
(* Unit normalizer *)

MappingGet(m, k, default) ==
  IF \E i \in 1..Len(m) : m[i][1] = k
  THEN m[CHOOSE i \in 1..Len(m) : m[i][1] = k][2]
  ELSE default

\* normalize_unit(u)
normalize_unit(u) ==
  IF u = <<>> THEN <<"o","z">>
  ELSE LET v == RStripS(Strip(Lower(u))) IN MappingGet(UnitMapping, v, v)

\* (x or "oz").lower().rstrip("s") of reddit_scraper.py
legacy_unit(u) == RStripS(Lower(u))

---------------------------------------------------------------------------
(* Pattern matching on tokens *)

IsNumAt(toks, i) == i >= 1 /\ i <= Len(toks) /\ toks[i].num

IsWordAt(toks, i) == i >= 1 /\ i <= Len(toks) /\ ~toks[i].num

Min(S) == CHOOSE x \in S : \A y \in S : x <= y

\* A unit group at the end of a pattern: the first alternative that is a prefix of
\* what follows the number, with the text's own letter case; <<>> when none is.
FirstPrefix(alts, w, lw) ==
  LET hits == {i \in 1..Len(alts) : HasPrefix(lw, alts[i])}
  IN IF hits = {} THEN <<>> ELSE SubSeq(w, 1, Len(alts[Min(hits)]))

Capture(alts, w) == FirstPrefix(alts, w, Lower(w))

CaptureAt(alts, toks, i) == IF IsWordAt(toks, i) THEN Capture(alts, toks[i].w) ELSE <<>>

\* A unit group followed by more of the pattern: some alternative is the whole word.
IsAlternative(alts, lw) == \E k \in 1..Len(alts) : alts[k] = lw

WholeUnitAt(alts, toks, i) == IsWordAt(toks, i) /\ IsAlternative(alts, Lower(toks[i].w))

ConnectorAt(conns, toks, i) == IsWordAt(toks, i) /\ IsAlternative(conns, Lower(toks[i].w))

\* The cue alternation followed by \s+ and a number: a word ending in a cue.
EndsInAlternative(alts, lw) == \E k \in 1..Len(alts) : HasSuffix(lw, alts[k])

CueAt(cues, toks, i) == IsWordAt(toks, i) /\ EndsInAlternative(cues, Lower(toks[i].w))

NoMatch == <<>>

Groups(a, b, c, d) == <<[g1 |-> a, g2 |-> b, g3 |-> c, g4 |-> d]>>

\* FROM_TO_PATTERN with its cue ending at token i
FromToAt(cues, units, conns, toks, i) ==
  IF ~(CueAt(cues, toks, i) /\ IsNumAt(toks, i + 1)) THEN NoMatch
  ELSE IF WholeUnitAt(units, toks, i + 2) /\ ConnectorAt(conns, toks, i + 3)
          /\ IsNumAt(toks, i + 4)
       THEN Groups(toks[i+1].v, toks[i+2].w, toks[i+4].v, CaptureAt(units, toks, i + 5))
  ELSE IF ConnectorAt(conns, toks, i + 2) /\ IsNumAt(toks, i + 3)
       THEN Groups(toks[i+1].v, <<>>, toks[i+3].v, CaptureAt(units, toks, i + 4))
  ELSE NoMatch

\* FROM_TO_PATTERN.search(text): the leftmost match
FromToSearch(cues, units, conns, toks) ==
  LET at == {i \in 1..Len(toks) : FromToAt(cues, units, conns, toks, i) # NoMatch}
  IN IF at = {} THEN NoMatch ELSE FromToAt(cues, units, conns, toks, Min(at))

\* ARROW_PATTERN starting at the number at token i
ArrowAt(toks, i) ==
  IF IsNumAt(toks, i) /\ WholeUnitAt(ARROW_UNITS, toks, i + 1)
     /\ ConnectorAt(ARROW_CONNECTORS, toks, i + 2) /\ IsNumAt(toks, i + 3)
  THEN Groups(toks[i].v, toks[i+1].w, toks[i+3].v, CaptureAt(ARROW_UNITS, toks, i + 4))
  ELSE NoMatch

\* ARROW_PATTERN.search(text)
ArrowSearch(toks) ==
  LET at == {i \in 1..Len(toks) : ArrowAt(toks, i) # NoMatch}
  IN IF at = {} THEN NoMatch ELSE ArrowAt(toks, Min(at))

\* UNIT_PATTERN.findall(text): the (number, unit) mentions, left to right
RECURSIVE FindUnits(_, _, _)
FindUnits(alts, toks, i) ==
  IF i > Len(toks) THEN <<>>
  ELSE IF toks[i].num /\ CaptureAt(alts, toks, i + 1) # <<>>
       THEN <<[val |-> toks[i].v, unit |-> CaptureAt(alts, toks, i + 1)]>>
            \o FindUnits(alts, toks, i + 2)
  ELSE FindUnits(alts, toks, i + 1)

\* PRICE_PATTERN.findall(text): a "$", blanks, a number
RECURSIVE FindPrices(_, _)
FindPrices(toks, i) ==
  IF i > Len(toks) THEN <<>>
  ELSE IF IsWordAt(toks, i) /\ HasSuffix(toks[i].w, <<"$">>) /\ IsNumAt(toks, i + 1)
       THEN <<toks[i+1].v>> \o FindPrices(toks, i + 2)
  ELSE FindPrices(toks, i + 1)

\* the first lexicon entry that occurs in the lower-cased text, or <<>>
FirstBrand(brands, text_lower) ==
  LET hits == {i \in 1..Len(brands) : Contains(text_lower, brands[i])}
  IN IF hits = {} THEN None ELSE Title(brands[Min(hits)])

---------------------------------------------------------------------------
(* Signal extractor *)

EmptyResult ==
  [brand |-> None, old_size |-> None, new_size |-> None, old_unit |-> None,
   new_unit |-> None, old_price |-> None, new_price |-> None,
   fields_found |-> 0, explicit_from_to |-> FALSE]

\* the price step, shared by both scrapers
PriceStep(r, toks) ==
  LET prices == FindPrices(toks, 1)
  IN IF Len(prices) >= 2
     THEN [r EXCEPT !.old_price = Some(prices[1]), !.new_price = Some(prices[Len(prices)]),
                    !.fields_found = @ + 1]
     ELSE IF Len(prices) = 1 THEN [r EXCEPT !.new_price = Some(prices[1])]
     ELSE r

\* the brand is recorded and not counted
BrandStep_uncounted(r, brands, text) ==
  LET b == FirstBrand(brands, Lower(Render(text)))
  IN IF IsSet(b) THEN [r EXCEPT !.brand = b] ELSE r

BrandStep(r, brands, text) ==
  LET b == FirstBrand(brands, Lower(Render(text)))
  IN IF IsSet(b) THEN [r EXCEPT !.brand = b, !.fields_found = @ + 1] ELSE r

\* an explicit change counted as one field
ExplicitWith_counts_one(r, m) ==
  IF m = NoMatch THEN r
  ELSE LET old_val  == m[1].g1
           new_val  == m[1].g3
           old_unit == normalize_unit(IF m[1].g2 # <<>> THEN m[1].g2 ELSE <<"o","z">>)
           new_unit == normalize_unit(IF m[1].g4 # <<>> THEN m[1].g4 ELSE old_unit)
       IN IF old_val > new_val
          THEN [r EXCEPT !.old_size = Some(old_val), !.new_size = Some(new_val),
                         !.old_unit = old_unit, !.new_unit = new_unit,
                         !.explicit_from_to = TRUE, !.fields_found = @ + 1]
          ELSE IF new_val > old_val
          THEN [r EXCEPT !.old_size = Some(new_val), !.new_size = Some(old_val),
                         !.old_unit = new_unit, !.new_unit = old_unit,
                         !.explicit_from_to = TRUE, !.fields_found = @ + 1]
          ELSE r

\* reddit_public_scraper.py: what the code does with a match m
ExplicitWith(r, m) ==
  IF m = NoMatch THEN r
  ELSE LET old_val  == m[1].g1
           new_val  == m[1].g3
           old_unit == normalize_unit(IF m[1].g2 # <<>> THEN m[1].g2 ELSE <<"o","z">>)
           new_unit == normalize_unit(IF m[1].g4 # <<>> THEN m[1].g4 ELSE old_unit)
       IN IF old_val > new_val
          THEN [r EXCEPT !.old_size = Some(old_val), !.new_size = Some(new_val),
                         !.old_unit = old_unit, !.new_unit = new_unit,
                         !.explicit_from_to = TRUE, !.fields_found = @ + 2]
          ELSE IF new_val > old_val
          THEN [r EXCEPT !.old_size = Some(new_val), !.new_size = Some(old_val),
                         !.old_unit = new_unit, !.new_unit = old_unit,
                         !.explicit_from_to = TRUE, !.fields_found = @ + 2]
          ELSE r

FirstMatch(ft, toks) == IF ft # NoMatch THEN ft ELSE ArrowSearch(toks)

ExplicitStep(r, toks) ==
  ExplicitWith(r, FirstMatch(FromToSearch(FROM_TO_CUES, FROM_TO_UNITS, FROM_TO_CONNECTORS, toks), toks))

\* the fallback counting a single mention as a found field
ImplicitStep_counts_single(r, toks) ==
  IF r.explicit_from_to THEN r
  ELSE LET units == FindUnits(UNIT_PATTERN, toks, 1)
       IN IF Len(units) >= 2
          THEN LET old_val  == units[1].val
                   old_unit == normalize_unit(units[1].unit)
                   new_val  == units[Len(units)].val
                   new_unit == normalize_unit(units[Len(units)].unit)
               IN IF old_val # new_val /\ old_unit = new_unit
                  THEN [r EXCEPT !.old_size = Some(IF old_val > new_val THEN old_val ELSE new_val),
                                 !.new_size = Some(IF old_val > new_val THEN new_val ELSE old_val),
                                 !.old_unit = old_unit, !.new_unit = new_unit,
                                 !.fields_found = @ + 1]
                  ELSE r
          ELSE IF Len(units) = 1
          THEN [r EXCEPT !.new_size = Some(units[1].val),
                         !.new_unit = normalize_unit(units[1].unit),
                         !.fields_found = @ + 1]
          ELSE r

\* the fallback taking the first mention as old and the last as new, as written
ImplicitStep_textual_order(r, toks) ==
  IF r.explicit_from_to THEN r
  ELSE LET units == FindUnits(UNIT_PATTERN, toks, 1)
       IN IF Len(units) >= 2
          THEN LET old_val  == units[1].val
                   old_unit == normalize_unit(units[1].unit)
                   new_val  == units[Len(units)].val
                   new_unit == normalize_unit(units[Len(units)].unit)
               IN IF old_val # new_val /\ old_unit = new_unit
                  THEN [r EXCEPT !.old_size = Some(old_val), !.new_size = Some(new_val),
                                 !.old_unit = old_unit, !.new_unit = new_unit,
                                 !.fields_found = @ + 1]
                  ELSE r
          ELSE IF Len(units) = 1
          THEN [r EXCEPT !.new_size = Some(units[1].val),
                         !.new_unit = normalize_unit(units[1].unit)]
          ELSE r

\* the fallback run whether or not an explicit change was recorded
ImplicitStep_always(r, toks) ==
  LET units == FindUnits(UNIT_PATTERN, toks, 1)
  IN IF Len(units) >= 2
     THEN LET old_val  == units[1].val
              old_unit == normalize_unit(units[1].unit)
              new_val  == units[Len(units)].val
              new_unit == normalize_unit(units[Len(units)].unit)
          IN IF old_val # new_val /\ old_unit = new_unit
             THEN [r EXCEPT !.old_size = Some(IF old_val > new_val THEN old_val ELSE new_val),
                            !.new_size = Some(IF old_val > new_val THEN new_val ELSE old_val),
                            !.old_unit = old_unit, !.new_unit = new_unit,
                            !.fields_found = @ + 1]
             ELSE r
     ELSE IF Len(units) = 1
     THEN [r EXCEPT !.new_size = Some(units[1].val),
                    !.new_unit = normalize_unit(units[1].unit)]
     ELSE r

\* the fallback without the comparison of the units
ImplicitStep_ignores_units(r, toks) ==
  IF r.explicit_from_to THEN r
  ELSE LET units == FindUnits(UNIT_PATTERN, toks, 1)
       IN IF Len(units) >= 2
          THEN LET old_val  == units[1].val
                   old_unit == normalize_unit(units[1].unit)
                   new_val  == units[Len(units)].val
                   new_unit == normalize_unit(units[Len(units)].unit)
               IN IF old_val # new_val
                  THEN [r EXCEPT !.old_size = Some(IF old_val > new_val THEN old_val ELSE new_val),
                                 !.new_size = Some(IF old_val > new_val THEN new_val ELSE old_val),
                                 !.old_unit = old_unit, !.new_unit = new_unit,
                                 !.fields_found = @ + 1]
                  ELSE r
          ELSE IF Len(units) = 1
          THEN [r EXCEPT !.new_size = Some(units[1].val),
                         !.new_unit = normalize_unit(units[1].unit)]
          ELSE r

\* reddit_public_scraper.py: the fallback on bare unit mentions
ImplicitStep(r, toks) ==
  IF r.explicit_from_to THEN r
  ELSE LET units == FindUnits(UNIT_PATTERN, toks, 1)
       IN IF Len(units) >= 2
          THEN LET old_val  == units[1].val
                   old_unit == normalize_unit(units[1].unit)
                   new_val  == units[Len(units)].val
                   new_unit == normalize_unit(units[Len(units)].unit)
               IN IF old_val # new_val /\ old_unit = new_unit
                  THEN [r EXCEPT !.old_size = Some(IF old_val > new_val THEN old_val ELSE new_val),
                                 !.new_size = Some(IF old_val > new_val THEN new_val ELSE old_val),
                                 !.old_unit = old_unit, !.new_unit = new_unit,
                                 !.fields_found = @ + 1]
                  ELSE r
          ELSE IF Len(units) = 1
          THEN [r EXCEPT !.new_size = Some(units[1].val),
                         !.new_unit = normalize_unit(units[1].unit)]
          ELSE r

\* parse_text(text) of reddit_public_scraper.py
parse_text(text) ==
  LET toks == Spaced(text)
  IN PriceStep(ImplicitStep(ExplicitStep(BrandStep(EmptyResult, KNOWN_BRANDS, text), toks), toks), toks)

\* reddit_scraper.py: the from->to step and its else branch
LegacySizeStep(r, toks) ==
  LET m == FromToSearch(LEGACY_FROM_TO_CUES, LEGACY_FROM_TO_UNITS, LEGACY_FROM_TO_CONNECTORS, toks)
  IN IF m # NoMatch
     THEN LET old_unit == legacy_unit(IF m[1].g2 # <<>> THEN m[1].g2 ELSE <<"o","z">>)
          IN [r EXCEPT !.old_size = Some(m[1].g1), !.old_unit = old_unit,
                       !.new_size = Some(m[1].g3),
                       !.new_unit = legacy_unit(IF m[1].g4 # <<>> THEN m[1].g4 ELSE old_unit),
                       !.explicit_from_to = TRUE, !.fields_found = @ + 2]
     ELSE LET units == FindUnits(LEGACY_UNIT_PATTERN, toks, 1)
          IN IF Len(units) >= 2
             THEN [r EXCEPT !.old_size = Some(units[1].val),
                            !.old_unit = legacy_unit(units[1].unit),
                            !.new_size = Some(units[Len(units)].val),
                            !.new_unit = legacy_unit(units[Len(units)].unit),
                            !.fields_found =
                               IF units[1].val # units[Len(units)].val THEN @ + 1 ELSE @]
             ELSE IF Len(units) = 1
             THEN [r EXCEPT !.new_size = Some(units[1].val),
                            !.new_unit = legacy_unit(units[1].unit)]
             ELSE r

\* parse_text(text) of reddit_scraper.py
legacy_parse_text(text) ==
  LET toks == Spaced(text)
  IN PriceStep(LegacySizeStep(BrandStep(EmptyResult, LEGACY_KNOWN_BRANDS, text), toks), toks)

---------------------------------------------------------------------------
(* Confidence classifier *)

TIER_AUTO_THRESHOLD == 3

TIER_REVIEW_THRESHOLD == 1

\* confidence_tier without the condition on the brand
confidence_tier_any_brand(parsed) ==
  IF parsed.fields_found >= TIER_AUTO_THRESHOLD /\ parsed.explicit_from_to
  THEN "auto"
  ELSE IF parsed.fields_found >= TIER_REVIEW_THRESHOLD THEN "review"
  ELSE "discard"

\* auto for exactly TIER_AUTO_THRESHOLD fields
confidence_tier_exact_threshold(parsed) ==
  IF parsed.fields_found = TIER_AUTO_THRESHOLD /\ IsSet(parsed.brand)
     /\ parsed.explicit_from_to
  THEN "auto"
  ELSE IF parsed.fields_found >= TIER_REVIEW_THRESHOLD THEN "review"
  ELSE "discard"

\* confidence_tier(parsed), the same in both scrapers
confidence_tier(parsed) ==
  IF parsed.fields_found >= TIER_AUTO_THRESHOLD /\ IsSet(parsed.brand)
     /\ parsed.explicit_from_to
  THEN "auto"
  ELSE IF parsed.fields_found >= TIER_REVIEW_THRESHOLD THEN "review"
  ELSE "discard"

---------------------------------------------------------------------------
(* Input texts of the extractor *)

W_oz == <<"o","z">>

W_from == <<"f","r","o","m">>

W_was == <<"w","a","s">>

W_to == <<"t","o">>

W_now == <<"n","o","w">>

\* The phrases the bounded texts are built from.
Phrases ==
  << <<Word(W_from), Num(52), Glued(W_oz), Word(W_to), Num(46), Glued(W_oz)>>,
     <<Word(W_was), Num(40), Glued(W_oz), Word(W_now), Num(64), Glued(W_oz)>>,
     <<Word(W_was), Num(16), Word(W_oz), Word(W_now), Num(400), Word(<<"g">>)>>,
     <<Word(W_from), Num(52), Word(W_to), Num(46)>>,
     <<Word(W_from), Num(12), Word(W_oz), Word(W_to), Num(12), Word(W_oz)>>,
     <<Num(64), Word(<<"O","z">>), Word(<<"v","s">>), Num(40), Word(<<"o","u","n","c","e","s">>)>>,
     <<Num(12), Glued(W_oz)>>,
     <<Num(12), Glued(<<"g">>)>>,
     <<Num(40), Glued(W_oz)>>,
     <<Num(64), Glued(W_oz)>>,
     <<Num(2), Word(<<"g","a","l","l","o","n","s">>)>>,
     <<Num(5), Word(<<"c","o","u","n","t">>)>>,
     <<Word(W_now)>>,
     <<Word(<<"T","r","o","p","i","c","a","n","a">>)>>,
     <<Word(<<"s","a","m","e">>)>>,
     <<Word(<<"$">>), Num(3)>>,
     <<Word(<<"$">>), Num(4)>>,
     <<Word(<<"$">>), Num(4), Word(<<"$">>), Num(3)>> >>

RECURSIVE PhraseTexts(_)
PhraseTexts(k) ==
  IF k = 0 THEN {<<>>}
  ELSE PhraseTexts(k - 1)
       \cup {t \o Phrases[i] : t \in PhraseTexts(k - 1), i \in 1..Len(Phrases)}

\* every text of at most MaxPhrases phrases
Texts == PhraseTexts(MaxPhrases)

---------------------------------------------------------------------------
(* Shrink percentage.  Sizes are integers and a percentage is an integer   *)
(* number of hundredths (1154 is 11.54).                                   *)

\* The outcome of evaluating a Python expression: a value, or an exception raised.
Returned(v) == [raised |-> FALSE, value |-> v]

Raised == [raised |-> TRUE, value |-> 0]

\* a / b of Python, kept as the exact quotient: ZeroDivisionError on b = 0
TrueDiv(a, b) == [raised |-> b = 0, n |-> a, d |-> b]

\* round(q * 100, 2) in hundredths, for q = n/d with d > 0: to the nearest, a tie to
\* the even neighbour (the ties of these quotients are exact binary fractions)
RoundPct(q) ==
  IF q.raised THEN Raised
  ELSE LET x == q.n * 10000
           f == x \div q.d
           r == x - f * q.d
       IN Returned(IF 2 * r < q.d THEN f
                   ELSE IF 2 * r > q.d THEN f + 1
                   ELSE IF f % 2 = 0 THEN f ELSE f + 1)

\* the percentage with the guard old_s >= 0
Pct_guard_nonnegative(old_s, new_s) ==
  IF old_s >= 0 THEN RoundPct(TrueDiv(old_s - new_s, old_s)) ELSE Returned(0)

\* pct = round(((old_s - new_s) / old_s) * 100, 2) if old_s > 0 else 0
Pct(old_s, new_s) ==
  IF old_s > 0 THEN RoundPct(TrueDiv(old_s - new_s, old_s)) ELSE Returned(0)

---------------------------------------------------------------------------
(* Posts.  A permalink and a URL are sequences of string pieces, the first *)
(* piece of a Reddit permalink being its leading "/".                      *)

PostA ==
  [id |-> "a",
   title |-> <<Word(<<"T","r","o","p","i","c","a","n","a">>), Word(<<"O","J">>), Word(<<"w","e","n","t">>), Word(<<"f","r","o","m">>), Num(52), Glued(<<"o","z">>), Word(<<"t","o">>), Num(46), Glued(<<"o","z",",">>), Word(<<"s","a","m","e">>), Word(<<"p","r","i","c","e","!">>)>>,
   selftext |-> <<>>,
   permalink |-> <<"/", "r/shrinkflation/comments/a/">>,
   subreddit |-> <<"s","h","r","i","n","k","f","l","a","t","i","o","n">>,
   created_utc |-> 1771000000]

PostB ==
  [id |-> "b",
   title |-> <<Word(<<"H","e","i","n","z">>), Word(<<"w","a","s">>), Num(40), Glued(<<"o","z">>), Word(<<"n","o","w">>), Num(64), Glued(<<"o","z">>)>>,
   selftext |-> <<>>,
   permalink |-> <<"/", "r/shrinkflation/comments/b/">>,
   subreddit |-> <<"s","h","r","i","n","k","f","l","a","t","i","o","n">>,
   created_utc |-> 1700000000]

PostZ ==
  [id |-> "z",
   title |-> <<Word(<<"D","o","r","i","t","o","s">>), Word(<<"f","r","o","m">>), Num(5), Glued(<<"o","z">>), Word(<<"t","o">>), Num(0), Glued(<<"o","z">>)>>,
   selftext |-> <<>>,
   permalink |-> <<"/", "r/shrinkflation/comments/z/">>,
   subreddit |-> <<"s","h","r","i","n","k","f","l","a","t","i","o","n">>,
   created_utc |-> 1710000000]

PostR ==
  [id |-> "r",
   title |-> <<Word(<<"s","m","a","l","l","e","r">>), Num(40), Glued(<<"o","z">>), Word(<<"n","o","w">>), Num(64), Glued(<<"o","z">>)>>,
   selftext |-> <<>>,
   permalink |-> <<"/", "r/Frugal/comments/r/">>,
   subreddit |-> <<"F","r","u","g","a","l">>,
   created_utc |-> 1720000000]

PostD ==
  [id |-> "d",
   title |-> <<Word(<<"s","h","r","i","n","k","f","l","a","t","i","o","n">>), Word(<<"s","u","c","k","s">>)>>,
   selftext |-> <<>>,
   permalink |-> <<"/", "r/shrinkflation/comments/d/">>,
   subreddit |-> <<"s","h","r","i","n","k","f","l","a","t","i","o","n">>,
   created_utc |-> 1730000000]

PostN ==
  [id |-> "n",
   title |-> <<Word(<<"h","e","l","l","o">>), Word(<<"t","h","e","r","e">>)>>,
   selftext |-> <<>>,
   permalink |-> <<"/", "r/Frugal/comments/n/">>,
   subreddit |-> <<"F","r","u","g","a","l">>,
   created_utc |-> 1740000000]

\* the posts that the listings can return
Posts == <<PostA, PostB, PostZ, PostR, PostD, PostN>>

PostSet == {Posts[i] : i \in 1..Len(Posts)}

\* f"https://reddit.com{permalink}" if permalink.startswith("/") else permalink
PublicUrl(post) ==
  IF post.permalink # <<>> /\ post.permalink[1] = "/"
  THEN <<"https://reddit.com">> \o post.permalink
  ELSE post.permalink

\* f"https://reddit.com{post.permalink}" of reddit_scraper.py
LegacyUrl(post) == <<"https://reddit.com">> \o post.permalink

\* the URLs of Posts in the order sorted() gives them ("F" < "s", then by id)
SortedUrls ==
  <<PublicUrl(PostN), PublicUrl(PostR), PublicUrl(PostA), PublicUrl(PostB),
    PublicUrl(PostD), PublicUrl(PostZ)>>

\* f"{title}\n{selftext}"
FullText(post) == post.title \o <<NL>> \o post.selftext

\* SHRINK_KEYWORDS.search(full_text)
HasKeyword(keywords, text) ==
  LET s == Render(text) IN \E k \in 1..Len(keywords) : ContainsWord(s, keywords[k])

---------------------------------------------------------------------------
(* Dedup registry file *)

InSeq(s, x) == \E i \in 1..Len(s) : s[i] = x

Range(s) == {s[i] : i \in 1..Len(s)}

\* a save that loses the last line
save_known_urls_drop_last(urls) ==
  SubSeq(SelectSeq(SortedUrls, LAMBDA u : u \in urls), 1, Cardinality(urls) - 1)

\* save_known_urls: path.write_text("\n".join(sorted(urls))); the file is its lines
save_known_urls(urls) == SelectSeq(SortedUrls, LAMBDA u : u \in urls)

\* load_known_urls: set(path.read_text().splitlines()), set() when there is no file
load_known_urls(file) == Range(file)

---------------------------------------------------------------------------
(* Staging entry builder and process_posts *)

\* build_entry of reddit_public_scraper.py (the fields that promotion and the
\* staging table's key use; timestamps, title, score and comment count are carried
\* along by the code and read by nothing)
build_entry(post, parsed, tier) ==
  [source_url |-> PublicUrl(post), tier |-> tier, status |-> "pending",
   brand |-> parsed.brand,
   old_size |-> parsed.old_size, old_unit |-> parsed.old_unit,
   new_size |-> parsed.new_size, new_unit |-> parsed.new_unit,
   old_price |-> parsed.old_price, new_price |-> parsed.new_price,
   explicit_from_to |-> parsed.explicit_from_to, fields_found |-> parsed.fields_found]

\* build_entry of reddit_scraper.py: the same without a status ("unset": no such key)
legacy_build_entry(post, parsed, tier) ==
  [source_url |-> LegacyUrl(post), tier |-> tier, status |-> "unset",
   brand |-> parsed.brand,
   old_size |-> parsed.old_size, old_unit |-> parsed.old_unit,
   new_size |-> parsed.new_size, new_unit |-> parsed.new_unit,
   old_price |-> parsed.old_price, new_price |-> parsed.new_price,
   explicit_from_to |-> parsed.explicit_from_to, fields_found |-> parsed.fields_found]

ZeroStats == [seen |-> 0, skipped_dup |-> 0, auto |-> 0, review |-> 0, discard |-> 0,
              no_keyword |-> 0]

Bump(stats, key) == [stats EXCEPT ![key] = @ + 1]

\* appending the entry whatever its tier
Tiered_keeps_discard(acc, post, parsed, tier) ==
  [entries  |-> Append(acc.entries, build_entry(post, parsed, tier)),
   new_urls |-> acc.new_urls \cup {PublicUrl(post)},
   stats    |-> Bump(acc.stats, tier)]

\* if tier != "discard": entries.append(build_entry(post, parsed, tier, log))
Tiered(acc, post, parsed, tier) ==
  [entries  |-> IF tier # "discard"
                THEN Append(acc.entries, build_entry(post, parsed, tier))
                ELSE acc.entries,
   new_urls |-> acc.new_urls \cup {PublicUrl(post)},
   stats    |-> Bump(acc.stats, tier)]

\* parsed = parse_text(full_text); tier = confidence_tier(parsed)
Classified(acc, post, parsed) == Tiered(acc, post, parsed, confidence_tier(parsed))

\* a duplicate that is skipped without being counted
ProcessOne_uncounted_dup(acc0, post, known_urls) ==
  LET acc == [acc0 EXCEPT !.stats = Bump(@, "seen")]
  IN IF PublicUrl(post) \in known_urls
     THEN acc
     ELSE IF Lower(post.subreddit) # <<"s","h","r","i","n","k","f","l","a","t","i","o","n">>
             /\ ~HasKeyword(SHRINK_KEYWORDS, FullText(post))
     THEN [acc EXCEPT !.stats = Bump(@, "no_keyword"),
                      !.new_urls = @ \cup {PublicUrl(post)}]
     ELSE Classified(acc, post, parse_text(FullText(post)))

\* one iteration of the loop of process_posts
ProcessOne(acc0, post, known_urls) ==
  LET acc == [acc0 EXCEPT !.stats = Bump(@, "seen")]
  IN IF PublicUrl(post) \in known_urls
     THEN [acc EXCEPT !.stats = Bump(@, "skipped_dup")]
     ELSE IF Lower(post.subreddit) # <<"s","h","r","i","n","k","f","l","a","t","i","o","n">>
             /\ ~HasKeyword(SHRINK_KEYWORDS, FullText(post))
     THEN [acc EXCEPT !.stats = Bump(@, "no_keyword"),
                      !.new_urls = @ \cup {PublicUrl(post)}]
     ELSE Classified(acc, post, parse_text(FullText(post)))

RECURSIVE ProcessLoop(_, _, _, _)
ProcessLoop(acc, posts, i, known_urls) ==
  IF i > Len(posts) THEN acc
  ELSE ProcessLoop(ProcessOne(acc, posts[i], known_urls), posts, i + 1, known_urls)

\* process_posts(posts, known_urls, log) -> (entries, new_urls, stats)
process_posts(posts, known_urls) ==
  ProcessLoop([entries |-> <<>>, new_urls |-> {}, stats |-> ZeroStats], posts, 1, known_urls)

---------------------------------------------------------------------------
(* The Supabase tables.  reddit_staging is a set of rows (an entry's       *)
(* columns and the row's id) with source_url unique; products and events   *)
(* are sequences of rows in insertion order.  A call that raises writes    *)
(* nothing.                                                                *)

\* The row id is a UUID the database generates; Uuid(a, b) has the eight characters
\* a followed by the rest b.
Uuid(a, b) == <<a, b>>

\* entry['id'][:8]
IdPrefix(id) == id[1]

\* The ids the database gives to the rows, by source_url: all ids differ; in the
\* second assignment those of PostA and PostB agree on their first eight characters.
UuidsDistinct ==
  [u \in Range(SortedUrls) |->
     IF u = PublicUrl(PostA) THEN Uuid("0a0a0a0a", "-a")
     ELSE IF u = PublicUrl(PostB) THEN Uuid("1b1b1b1b", "-b")
     ELSE IF u = PublicUrl(PostZ) THEN Uuid("2c2c2c2c", "-z")
     ELSE IF u = PublicUrl(PostR) THEN Uuid("3d3d3d3d", "-r")
     ELSE IF u = PublicUrl(PostD) THEN Uuid("4e4e4e4e", "-d")
     ELSE Uuid("5f5f5f5f", "-n")]

UuidsColliding == [UuidsDistinct EXCEPT ![PublicUrl(PostB)] = Uuid("0a0a0a0a", "-b")]

\* the status column's default for a row written without one
STATUS_DEFAULT == "pending"

HasRow(table, url) == \E r \in table : r.source_url = url

RowOf(table, url) == CHOOSE r \in table : r.source_url = url

Row(entry, id, status) ==
  [id |-> id, source_url |-> entry.source_url, tier |-> entry.tier, status |-> status,
   brand |-> entry.brand,
   old_size |-> entry.old_size, old_unit |-> entry.old_unit,
   new_size |-> entry.new_size, new_unit |-> entry.new_unit,
   old_price |-> entry.old_price, new_price |-> entry.new_price,
   explicit_from_to |-> entry.explicit_from_to, fields_found |-> entry.fields_found]

\* table("reddit_staging").upsert(entry, on_conflict="source_url"): the row with
\* this source_url takes the entry's columns and keeps its id; without one, a row
\* is inserted under a fresh id
UpsertRow(table, entry, ids) ==
  IF HasRow(table, entry.source_url)
  THEN LET old == RowOf(table, entry.source_url)
       IN (table \ {old})
          \cup {Row(entry, old.id, IF entry.status = "unset" THEN old.status ELSE entry.status)}
  ELSE table
       \cup {Row(entry, ids[entry.source_url],
                 IF entry.status = "unset" THEN STATUS_DEFAULT ELSE entry.status)}

RECURSIVE UpsertRows(_, _, _)
UpsertRows(table, batch, ids) ==
  IF batch = <<>> THEN table
  ELSE UpsertRows(UpsertRow(table, Head(batch), ids), Tail(batch), ids)

\* PostgreSQL rejects a bulk upsert that names one conflict key twice
\* ("ON CONFLICT DO UPDATE command cannot affect row a second time").
HasDuplicateKey(batch) ==
  \E i, j \in 1..Len(batch) : i # j /\ batch[i].source_url = batch[j].source_url

---------------------------------------------------------------------------
(* upsert_to_supabase *)

\* Batch in chunks of 50
UPSERT_CHUNK == 50

\* The chunk size of the runs of SpecUpsert, which stands for the 50 of the code so
\* that a bounded run has several chunks.
SmallChunk == 2

UpsertResult(table, upserted, written, retried, raised) ==
  [table |-> table, upserted |-> upserted, written |-> written, retried |-> retried,
   raised |-> raised]

\* a retry loop that gives up at the first single upsert that raises
RECURSIVE RetrySingly_gives_up(_, _, _, _, _, _)
RetrySingly_gives_up(acc, entries, j, last, singleFails, ids) ==
  IF j > last THEN acc
  ELSE IF j \in singleFails THEN [acc EXCEPT !.retried = @ \cup {j}]
       ELSE RetrySingly_gives_up([acc EXCEPT !.retried = @ \cup {j},
                                             !.table = UpsertRow(@, entries[j], ids),
                                             !.written = @ \cup {j},
                                             !.upserted = @ + 1],
                                 entries, j + 1, last, singleFails, ids)

\* the except branch: the entries first..last of a failed chunk, one by one; a
\* single upsert that raises is logged and skipped
RECURSIVE RetrySingly(_, _, _, _, _, _)
RetrySingly(acc, entries, j, last, singleFails, ids) ==
  IF j > last THEN acc
  ELSE IF j \in singleFails
       THEN RetrySingly([acc EXCEPT !.retried = @ \cup {j}],
                        entries, j + 1, last, singleFails, ids)
       ELSE RetrySingly([acc EXCEPT !.retried = @ \cup {j},
                                    !.table = UpsertRow(@, entries[j], ids),
                                    !.written = @ \cup {j},
                                    !.upserted = @ + 1],
                        entries, j + 1, last, singleFails, ids)

\* one chunk: batch = entries[i:i + chunk] with i = first - 1
UpsertChunk(acc, entries, first, chunk, chunkFails, singleFails, ids) ==
  LET last  == IF first + chunk - 1 < Len(entries) THEN first + chunk - 1 ELSE Len(entries)
      batch == SubSeq(entries, first, last)
      k     == ((first - 1) \div chunk) + 1
  IN IF k \in chunkFails \/ HasDuplicateKey(batch)
     THEN RetrySingly(acc, entries, first, last, singleFails, ids)
     ELSE [acc EXCEPT !.table = UpsertRows(@, batch, ids),
                      !.written = @ \cup (first..last),
                      !.upserted = @ + Len(batch)]

RECURSIVE UpsertLoop(_, _, _, _, _, _, _)
UpsertLoop(acc, entries, first, chunk, chunkFails, singleFails, ids) ==
  IF first > Len(entries) THEN acc
  ELSE UpsertLoop(UpsertChunk(acc, entries, first, chunk, chunkFails, singleFails, ids),
                  entries, first + chunk, chunk, chunkFails, singleFails, ids)

\* upsert_to_supabase(sb, entries, log) -> upserted, with the chunk size a parameter;
\* chunkFails are the batch numbers whose bulk upsert raises, singleFails the
\* positions of the entries whose single upsert raises
upsert_to_supabase(table, entries, chunk, chunkFails, singleFails, ids) ==
  IF entries = <<>> THEN UpsertResult(table, 0, {}, {}, FALSE)
  ELSE UpsertLoop(UpsertResult(table, 0, {}, {}, FALSE),
                  entries, 1, chunk, chunkFails, singleFails, ids)

---------------------------------------------------------------------------
(* promote_auto_entries *)

\* `not x` for an optional number: None and 0 are falsy
Falsy(o) == o = None \/ Val(o) = 0

\* f"REDDIT-{entry['id'][:8]}"
Upc(row) == <<"REDDIT-", IdPrefix(row.id)>>

\* entry.get("new_unit") or entry.get("old_unit") or "oz"
UnitOf(row) ==
  IF row.new_unit # <<>> THEN row.new_unit
  ELSE IF row.old_unit # <<>> THEN row.old_unit
  ELSE <<"o","z">>

\* the row of table("products").upsert({...}) (name and category, which come from
\* product_hint, are left out)
ProductRow(row) ==
  [upc |-> Upc(row), brand |-> row.brand, current_size |-> Val(row.new_size),
   unit |-> UnitOf(row)]

\* the row of table("events").insert({...}); the note carries the source_url
EventRow(row, pct) ==
  [upc |-> Upc(row), old_size |-> Val(row.old_size), new_size |-> Val(row.new_size),
   unit |-> UnitOf(row), pct |-> pct,
   price_before |-> row.old_price, price_after |-> row.new_price,
   notes |-> row.source_url]

\* an insert in place of the upsert
InsertProduct(products, p) == Append(products, p)

\* table("products").upsert(row, on_conflict="upc")
UpsertProduct(products, p) ==
  IF \E i \in 1..Len(products) : products[i].upc = p.upc
  THEN [i \in 1..Len(products) |-> IF products[i].upc = p.upc THEN p ELSE products[i]]
  ELSE Append(products, p)

\* table("events").insert(row)
InsertEvent(events, e) == Append(events, e)

\* table("reddit_staging").update({"status": "promoted"}).eq("id", id)
MarkPromoted(table, id) ==
  {IF r.id = id THEN [r EXCEPT !.status = "promoted"] ELSE r : r \in table}

\* select("*").eq("tier", "auto").eq("status", "pending"), in the order of SortedUrls
SelectPendingAuto(table) ==
  LET urls == SelectSeq(SortedUrls,
                        LAMBDA u : HasRow(table, u) /\ RowOf(table, u).tier = "auto"
                                   /\ RowOf(table, u).status = "pending")
  IN [i \in 1..Len(urls) |-> RowOf(table, urls[i])]

PromoteResult(db, promoted, attempted, flipped, failed, raised) ==
  [staging |-> db.staging, products |-> db.products, events |-> db.events,
   promoted |-> promoted, attempted |-> attempted, flipped |-> flipped,
   failed |-> failed, raised |-> raised]

\* a try block whose status update runs although the event insert raised
TryPromote_flips_without_event(acc, row, pct, fail) ==
  LET a1 == [acc EXCEPT !.attempted = @ \cup {row.source_url}]
  IN IF fail = "product" THEN [a1 EXCEPT !.failed = @ \cup {row.source_url}]
     ELSE LET a2 == [a1 EXCEPT !.products = UpsertProduct(@, ProductRow(row))]
              a3 == IF fail = "event" THEN a2
                    ELSE [a2 EXCEPT !.events = InsertEvent(@, EventRow(row, pct))]
          IN IF fail = "status" THEN [a3 EXCEPT !.failed = @ \cup {row.source_url}]
             ELSE [a3 EXCEPT !.staging = MarkPromoted(@, row.id),
                             !.flipped = @ \cup {row.source_url},
                             !.promoted = @ + 1]

\* a try block without its except branch: the exception leaves the loop
TryPromote_reraises(acc, row, pct, fail) ==
  LET a1 == [acc EXCEPT !.attempted = @ \cup {row.source_url}]
  IN IF fail = "product" THEN [a1 EXCEPT !.raised = TRUE]
     ELSE LET a2 == [a1 EXCEPT !.products = UpsertProduct(@, ProductRow(row))]
          IN IF fail = "event" THEN [a2 EXCEPT !.raised = TRUE]
             ELSE LET a3 == [a2 EXCEPT !.events = InsertEvent(@, EventRow(row, pct))]
                  IN IF fail = "status" THEN [a3 EXCEPT !.raised = TRUE]
                     ELSE [a3 EXCEPT !.staging = MarkPromoted(@, row.id),
                                     !.flipped = @ \cup {row.source_url},
                                     !.promoted = @ + 1]

\* the try block for one entry; fail names the call that raises ("product", "event",
\* "status") or is "none"
TryPromote(acc, row, pct, fail) ==
  LET a1 == [acc EXCEPT !.attempted = @ \cup {row.source_url}]
  IN IF fail = "product" THEN [a1 EXCEPT !.failed = @ \cup {row.source_url}]
     ELSE LET a2 == [a1 EXCEPT !.products = UpsertProduct(@, ProductRow(row))]
          IN IF fail = "event" THEN [a2 EXCEPT !.failed = @ \cup {row.source_url}]
             ELSE LET a3 == [a2 EXCEPT !.events = InsertEvent(@, EventRow(row, pct))]
                  IN IF fail = "status" THEN [a3 EXCEPT !.failed = @ \cup {row.source_url}]
                     ELSE [a3 EXCEPT !.staging = MarkPromoted(@, row.id),
                                     !.flipped = @ \cup {row.source_url},
                                     !.promoted = @ + 1]

\* one iteration of the loop over the selected entries
PromoteOne(acc, row, fail) ==
  IF Falsy(row.old_size) \/ Falsy(row.new_size) THEN acc
  ELSE LET pct == Pct(Val(row.old_size), Val(row.new_size))
       IN IF pct.raised THEN [acc EXCEPT !.raised = TRUE]
          ELSE TryPromote(acc, row, pct.value, fail)

RECURSIVE PromoteLoop(_, _, _, _)
PromoteLoop(acc, rows, i, outcome) ==
  IF i > Len(rows) \/ acc.raised THEN acc
  ELSE PromoteLoop(PromoteOne(acc, rows[i], outcome[rows[i].source_url]),
                   rows, i + 1, outcome)

\* promote_auto_entries(sb, log) -> promoted; selectFails: the select raises;
\* outcome: by source_url, the call of the entry's try block that raises, or "none"
promote_auto_entries(db, selectFails, outcome) ==
  IF selectFails THEN PromoteResult(db, 0, {}, {}, {}, TRUE)
  ELSE PromoteLoop(PromoteResult(db, 0, {}, {}, {}, FALSE),
                   SelectPendingAuto(db.staging), 1, outcome)

---------------------------------------------------------------------------
(* reddit_scraper.py: the loop of run_scraper and the staging queue file   *)

EmptyQueue == [auto |-> <<>>, review |-> <<>>]

\* if not dry_run and tier != "discard": queue[tier].append(entry)
LegacyTiered(acc, post, parsed, tier, dry_run) ==
  [queue    |-> IF ~dry_run /\ tier # "discard"
                THEN [acc.queue EXCEPT ![tier] = Append(@, legacy_build_entry(post, parsed, tier))]
                ELSE acc.queue,
   new_urls |-> acc.new_urls \cup {LegacyUrl(post)},
   stats    |-> Bump(acc.stats, tier)]

\* parsed = parse_text(full_text); tier = confidence_tier(parsed)
LegacyClassified(acc, post, parsed, dry_run) ==
  LegacyTiered(acc, post, parsed, confidence_tier(parsed), dry_run)

\* one iteration of `for post in posts` of run_scraper
LegacyOne(acc0, post, known_urls, dry_run) ==
  LET acc == [acc0 EXCEPT !.stats = Bump(@, "seen")]
  IN IF LegacyUrl(post) \in known_urls
     THEN [acc EXCEPT !.stats = Bump(@, "skipped_dup")]
     ELSE IF ~HasKeyword(LEGACY_SHRINK_KEYWORDS, FullText(post))
     THEN [acc EXCEPT !.stats = Bump(@, "no_keyword"),
                      !.new_urls = @ \cup {LegacyUrl(post)}]
     ELSE LegacyClassified(acc, post, legacy_parse_text(FullText(post)), dry_run)

RECURSIVE LegacyLoop(_, _, _, _, _)
LegacyLoop(acc, posts, i, known_urls, dry_run) ==
  IF i > Len(posts) THEN acc
  ELSE LegacyLoop(LegacyOne(acc, posts[i], known_urls, dry_run), posts, i + 1,
                  known_urls, dry_run)

\* the Supabase write of run_scraper: every entry of the queue in one bulk upsert,
\* inside try/except; writeFails: the call raises
LegacySupabaseWrite(table, queue, writeFails, ids) ==
  LET all_entries == queue["auto"] \o queue["review"]
  IN IF all_entries = <<>> \/ writeFails \/ HasDuplicateKey(all_entries) THEN table
     ELSE UpsertRows(table, all_entries, ids)

---------------------------------------------------------------------------
(* The pipeline as a state machine *)

\* Most posts that one run fetches.
MaxFetch == 2

\* Most rows of the events table.
MaxEvents == 2

\* Most entries of a local staging file.
MaxLocal == 2

VARIABLES
  feed,            \* the posts that the subreddits offer to this deployment
  script,          \* "public": reddit_public_scraper.py is deployed; "legacy": reddit_scraper.py
  has_supabase,    \* HAS_SUPABASE and SUPABASE_KEY
  uuids,           \* the ids the database generates, by source_url
  known_urls_file, \* KNOWN_URLS_FILE of the deployed script, as its lines
  staging,         \* table reddit_staging
  products,        \* table products
  events,          \* table events
  local_files,     \* public_staging.json and backfill_staging.json
  staging_queue,   \* staging_queue.json of reddit_scraper.py
  run,             \* the run in progress: its position and its local variables
  handled,         \* history: the URLs that completed runs have handled
  faults,          \* SpecUpsert: the writes that fail in the call of upsert_to_supabase
  parsed,          \* SpecParse, SpecTier: a parse result and its tier
  text,            \* SpecParse: the text given to parse_text
  sizes,           \* SpecPct: the sizes of an entry being promoted
  pct,             \* SpecPct: the percentage computed from them
  unit_token,      \* SpecUnit: a unit token given to normalize_unit and what it returned
  call,            \* SpecProcess: the arguments of a call of process_posts and what it returned
  passes           \* SpecRetry: history: the promotion passes so far in which a call failed,
                   \* and the parity of those in which none did

vars == <<feed, script, has_supabase, uuids, known_urls_file, staging, products, events,
          local_files, staging_queue, run, handled, faults, parsed, text, sizes, pct,
          unit_token, call, passes>>

config == <<feed, script, has_supabase, uuids>>

tables == <<staging, products, events>>

pure == <<faults, parsed, text, sizes, pct, unit_token, call, passes>>

\* no run in progress
Idle ==
  [pc |-> "idle", mode |-> "none", known_urls |-> {}, entries |-> <<>>,
   new_urls |-> {}, stats |-> ZeroStats,
   upserted |-> 0, written |-> {}, retried |-> {},
   promoted |-> 0, attempted |-> {}, flipped |-> {}, failed |-> {},
   select_failed |-> FALSE, dry_run |-> FALSE]

\* the sequences of at most n posts of a set
RECURSIVE PostLists(_, _)
PostLists(from, n) ==
  IF n = 0 THEN {<<>>}
  ELSE PostLists(from, n - 1) \cup {Append(l, p) : l \in PostLists(from, n - 1), p \in from}

\* The posts one deployment can be offered over its life.
Feeds == {{PostA, PostB, PostD}, {PostZ, PostR, PostN}}

\* run_recent: "Deduplicate by permalink" keeps the first post of each id
RECURSIVE UniquePosts(_, _)
UniquePosts(posts, seen_ids) ==
  IF posts = <<>> THEN <<>>
  ELSE IF Head(posts).id \in seen_ids THEN UniquePosts(Tail(posts), seen_ids)
  ELSE <<Head(posts)>> \o UniquePosts(Tail(posts), seen_ids \cup {Head(posts).id})

\* run_backfill: all_posts.sort(key=created_utc), a stable sort
RECURSIVE InsertByDate(_, _)
InsertByDate(sorted, p) ==
  IF sorted = <<>> THEN <<p>>
  ELSE IF p.created_utc < Head(sorted).created_utc THEN <<p>> \o sorted
  ELSE <<Head(sorted)>> \o InsertByDate(Tail(sorted), p)

RECURSIVE SortByDate(_)
SortByDate(posts) ==
  IF posts = <<>> THEN <<>>
  ELSE InsertByDate(SortByDate(SubSeq(posts, 1, Len(posts) - 1)), posts[Len(posts)])

Deployments ==
  {[script |-> "public", has_supabase |-> TRUE,  uuids |-> UuidsDistinct],
   [script |-> "public", has_supabase |-> TRUE,  uuids |-> UuidsColliding],
   [script |-> "public", has_supabase |-> FALSE, uuids |-> UuidsDistinct],
   [script |-> "legacy", has_supabase |-> TRUE,  uuids |-> UuidsDistinct],
   [script |-> "legacy", has_supabase |-> FALSE, uuids |-> UuidsDistinct]}

NoHistory == [any |-> {}, kept |-> {}]

NoFaults == [chunkFails |-> {}, singleFails |-> {}]

NotParsed == [variant |-> "none", result |-> EmptyResult, tier |-> "none"]

NoSizes == [old_s |-> 0, new_s |-> 0]

NotComputed == [computed |-> FALSE, raised |-> FALSE, value |-> 0]

NoToken == [u |-> None, out |-> None]

NoPasses == [failed |-> 0, clean |-> 0]

NoCall == [posts |-> <<>>, known_urls |-> {}, returned |-> FALSE, entries |-> <<>>,
           new_urls |-> {}, stats |-> ZeroStats]

\* nothing stored yet: no registry file, empty tables, no local files
Fresh ==
  /\ known_urls_file = <<>>
  /\ staging = {}
  /\ products = <<>>
  /\ events = <<>>
  /\ local_files = [recent |-> <<>>, backfill |-> <<>>]
  /\ staging_queue = EmptyQueue
  /\ handled = NoHistory

Init ==
  /\ feed \in Feeds
  /\ \E d \in Deployments :
        script = d.script /\ has_supabase = d.has_supabase /\ uuids = d.uuids
  /\ Fresh
  /\ run = Idle
  /\ faults = NoFaults /\ parsed = NotParsed /\ text = <<>>
  /\ sizes = NoSizes /\ pct = NotComputed /\ unit_token = NoToken
  /\ call = NoCall /\ passes = NoPasses

\* the start of run_recent or run_backfill, up to the return of process_posts
Processed(mode, known, out) ==
  [Idle EXCEPT !.pc = "processed", !.mode = mode, !.known_urls = known,
               !.entries = out.entries, !.new_urls = out.new_urls, !.stats = out.stats]

Started(mode, posts) ==
  Processed(mode, load_known_urls(known_urls_file),
            process_posts(posts, load_known_urls(known_urls_file)))

StartRecent(fetched) ==
  /\ script = "public" /\ run.pc = "idle"
  /\ run' = Started("recent", UniquePosts(fetched, {}))
  /\ UNCHANGED <<config, known_urls_file, tables, local_files, staging_queue, handled, pure>>

\* run_backfill returns at once when nothing was fetched
StartBackfill(fetched) ==
  /\ script = "public" /\ run.pc = "idle"
  /\ fetched # <<>>
  /\ run' = Started("backfill", SortByDate(fetched))
  /\ UNCHANGED <<config, known_urls_file, tables, local_files, staging_queue, handled, pure>>

\* the effects of upsert_to_supabase with result res
Upserted(res) ==
  /\ staging' = res.table
  /\ run' = [run EXCEPT !.pc = "upserted", !.upserted = res.upserted,
                        !.written = res.written, !.retried = res.retried]

\* upserted = upsert_to_supabase(sb, entries, log)
Upsert(chunkFails, singleFails) ==
  /\ has_supabase /\ run.pc = "processed"
  /\ Upserted(upsert_to_supabase(staging, run.entries, UPSERT_CHUNK, chunkFails,
                                 singleFails, uuids))
  /\ UNCHANGED <<config, known_urls_file, products, events, local_files, staging_queue,
                 handled, pure>>

\* for each selected entry, the call of its try block that raises, or "none"
OutcomesFor(table) ==
  [{r.source_url : r \in Range(SelectPendingAuto(table))} ->
     {"none", "product", "event", "status"}]

DB == [staging |-> staging, products |-> products, events |-> events]

\* the effects of a promotion pass with result res; an exception leaves the script
Promoted(res, before, pc, selectFails) ==
  /\ Len(res.events) <= MaxEvents
  /\ staging' = res.staging /\ products' = res.products /\ events' = res.events
  /\ run' = IF res.raised
            THEN [Idle EXCEPT !.pc = "aborted", !.select_failed = selectFails]
            ELSE [before EXCEPT !.pc = pc, !.promoted = res.promoted,
                                !.attempted = res.attempted, !.flipped = res.flipped,
                                !.failed = res.failed]

\* promoted = promote_auto_entries(sb, log) inside run_recent or run_backfill
Promote(selectFails, outcome) ==
  /\ has_supabase /\ run.pc = "upserted"
  /\ Promoted(promote_auto_entries(DB, selectFails, outcome), run, "promoted", selectFails)
  /\ UNCHANGED <<config, known_urls_file, local_files, staging_queue, handled, pure>>

\* the else branch: existing.extend(entries) on the mode's local file
SaveLocal ==
  /\ script = "public" /\ ~has_supabase /\ run.pc = "processed"
  /\ Len(local_files[run.mode]) + Len(run.entries) <= MaxLocal
  /\ local_files' = [local_files EXCEPT ![run.mode] = @ \o run.entries]
  /\ run' = [run EXCEPT !.pc = "stored"]
  /\ UNCHANGED <<config, known_urls_file, tables, staging_queue, handled, pure>>

\* known_urls |= new_urls; save_known_urls(KNOWN_URLS_FILE, known_urls); the run ends
SaveKnown ==
  /\ run.pc \in {"promoted", "stored"}
  /\ known_urls_file' = save_known_urls(run.known_urls \cup run.new_urls)
  /\ handled' = [any |-> handled.any \cup run.new_urls, kept |-> handled.kept \cup run.new_urls]
  /\ run' = Idle
  /\ UNCHANGED <<config, tables, local_files, staging_queue, pure>>

\* the process is stopped before it saved the registry
Interrupt ==
  /\ run.pc \in {"processed", "upserted", "promoted", "stored"}
  /\ run' = Idle
  /\ UNCHANGED <<config, known_urls_file, tables, local_files, staging_queue, handled, pure>>

\* run_promote_only
PromoteOnly(selectFails, outcome) ==
  /\ has_supabase /\ run.pc = "idle"
  /\ Promoted(promote_auto_entries(DB, selectFails, outcome), Idle, "promoted_only",
              selectFails)
  /\ UNCHANGED <<config, known_urls_file, local_files, staging_queue, handled, pure>>

\* the entries that a run appended to a list of the queue
Appended(before, after) == SubSeq(after, Len(before) + 1, Len(after))

\* run_scraper after its loop: the summary, then (unless dry_run) the registry, the
\* queue file and the Supabase write
LegacyFinish(known, out, dry_run, writeFails) ==
  /\ run' = [Idle EXCEPT !.pc = "legacy_done", !.mode = "legacy",
                         !.known_urls = known, !.new_urls = out.new_urls,
                         !.entries = Appended(staging_queue["auto"], out.queue["auto"])
                                     \o Appended(staging_queue["review"], out.queue["review"]),
                         !.stats = out.stats, !.dry_run = dry_run]
  /\ handled' = [any  |-> handled.any \cup out.new_urls,
                 kept |-> IF dry_run THEN handled.kept ELSE handled.kept \cup out.new_urls]
  /\ IF dry_run
     THEN UNCHANGED <<known_urls_file, staging_queue, staging>>
     ELSE /\ known_urls_file' = save_known_urls(known \cup out.new_urls)
          /\ staging_queue' = out.queue
          /\ staging' = IF has_supabase
                        THEN LegacySupabaseWrite(staging, out.queue, writeFails, uuids)
                        ELSE staging

\* run_scraper(dry_run) of reddit_scraper.py
LegacyRun(fetched, dry_run, writeFails) ==
  /\ script = "legacy" /\ run.pc = "idle"
  /\ LegacyFinish(load_known_urls(known_urls_file),
                  LegacyLoop([queue |-> staging_queue, new_urls |-> {}, stats |-> ZeroStats],
                             fetched, 1, load_known_urls(known_urls_file), dry_run),
                  dry_run, writeFails)
  /\ UNCHANGED <<config, products, events, local_files, pure>>

\* the summary is logged and the script returns, or the exception has ended it
Return ==
  /\ run.pc \in {"promoted_only", "legacy_done", "aborted"}
  /\ run' = Idle
  /\ UNCHANGED <<config, known_urls_file, tables, local_files, staging_queue, handled, pure>>

Next ==
  \/ \E fetched \in PostLists(feed, MaxFetch) : StartRecent(fetched)
  \/ \E fetched \in PostLists(feed, MaxFetch) : StartBackfill(fetched)
  \/ \E chunkFails \in SUBSET {1}, singleFails \in SUBSET (1..Len(run.entries)) :
        Upsert(chunkFails, singleFails)
  \/ \E selectFails \in BOOLEAN, outcome \in OutcomesFor(staging) :
        Promote(selectFails, outcome)
  \/ SaveLocal
  \/ SaveKnown
  \/ Interrupt
  \/ \E selectFails \in BOOLEAN, outcome \in OutcomesFor(staging) :
        PromoteOnly(selectFails, outcome)
  \/ \E fetched \in PostLists(feed, MaxFetch), dry_run \in BOOLEAN, writeFails \in BOOLEAN :
        LegacyRun(fetched, dry_run, writeFails)
  \/ Return

Spec == Init /\ [][Next]_vars

---------------------------------------------------------------------------
(* The pure functions, each applied to inputs drawn from a bounded set *)

Quiet ==
  /\ feed = {PostA, PostB, PostD}
  /\ script = "public" /\ has_supabase = TRUE /\ uuids = UuidsDistinct
  /\ Fresh

\* SpecParse: parse_text of either scraper and confidence_tier on a text
InitParse ==
  /\ Quiet /\ run = Idle
  /\ text \in Texts
  /\ faults = NoFaults /\ parsed = NotParsed /\ sizes = NoSizes /\ pct = NotComputed /\ unit_token = NoToken
  /\ call = NoCall /\ passes = NoPasses

Parsed(variant, result) ==
  [variant |-> variant, result |-> result, tier |-> confidence_tier(result)]

ParsePublic ==
  /\ parsed.variant = "none"
  /\ parsed' = Parsed("public", parse_text(text))
  /\ UNCHANGED <<config, known_urls_file, tables, local_files, staging_queue, run, handled,
                 faults, text, sizes, pct, unit_token, call, passes>>

ParseLegacy ==
  /\ parsed.variant = "none"
  /\ parsed' = Parsed("legacy", legacy_parse_text(text))
  /\ UNCHANGED <<config, known_urls_file, tables, local_files, staging_queue, run, handled,
                 faults, text, sizes, pct, unit_token, call, passes>>

NextParse == ParsePublic \/ ParseLegacy

SpecParse == InitParse /\ [][NextParse]_vars

\* Most fields that a parse result counts.
MaxFields == 5

\* SpecTier: confidence_tier on every combination of its three signals
TierInputs ==
  {[EmptyResult EXCEPT !.fields_found = f, !.brand = b, !.explicit_from_to = e] :
     f \in 0..MaxFields,
     b \in {None, Some(Title(KNOWN_BRANDS[1])), Some(Title(KNOWN_BRANDS[2])),
            Some(Title(KNOWN_BRANDS[3])), Some(Title(KNOWN_BRANDS[4]))},
     e \in BOOLEAN}

InitTier ==
  /\ Quiet /\ run = Idle
  /\ \E r \in TierInputs : parsed = [variant |-> "none", result |-> r, tier |-> "none"]
  /\ faults = NoFaults /\ text = <<>> /\ sizes = NoSizes /\ pct = NotComputed /\ unit_token = NoToken
  /\ call = NoCall /\ passes = NoPasses

Classify ==
  /\ parsed.tier = "none"
  /\ parsed' = [parsed EXCEPT !.tier = confidence_tier(parsed.result)]
  /\ UNCHANGED <<config, known_urls_file, tables, local_files, staging_queue, run, handled,
                 faults, text, sizes, pct, unit_token, call, passes>>

NextTier == Classify

SpecTier == InitTier /\ [][NextTier]_vars

\* The sizes of SpecPct, in whole units, from -MaxNegative to MaxSize.
MaxNegative == 3

MaxSize == 55

\* SpecPct: the percentage of promote_auto_entries on a pair of sizes
InitPct ==
  /\ Quiet /\ run = Idle
  /\ sizes \in [old_s : (0 - MaxNegative)..MaxSize, new_s : (0 - MaxNegative)..MaxSize]
  /\ faults = NoFaults /\ parsed = NotParsed /\ text = <<>> /\ pct = NotComputed /\ unit_token = NoToken
  /\ call = NoCall /\ passes = NoPasses

Computed(res) == [computed |-> TRUE, raised |-> res.raised, value |-> res.value]

ComputePct ==
  /\ ~pct.computed
  /\ pct' = Computed(Pct(sizes.old_s, sizes.new_s))
  /\ UNCHANGED <<config, known_urls_file, tables, local_files, staging_queue, run, handled,
                 faults, parsed, text, sizes, unit_token, call, passes>>

NextPct == ComputePct

SpecPct == InitPct /\ [][NextPct]_vars

\* Most entries handed to upsert_to_supabase in SpecUpsert.
MaxBatch == 4

\* the entries that process_posts builds from the posts that yield one
EntryPool ==
  {process_posts(<<p>>, {}).entries[1] :
     p \in {q \in PostSet : process_posts(<<q>>, {}).entries # <<>>}}

RECURSIVE Batches(_)
Batches(n) ==
  IF n = 0 THEN {<<>>}
  ELSE Batches(n - 1) \cup {Append(b, e) : b \in Batches(n - 1), e \in EntryPool}

\* SpecUpsert: upsert_to_supabase on a list of entries, in chunks of SmallChunk
InitUpsert ==
  /\ Quiet
  /\ \E b \in Batches(MaxBatch) :
        run = [Idle EXCEPT !.pc = "processed", !.mode = "backfill", !.entries = b]
  /\ faults = NoFaults /\ parsed = NotParsed /\ text = <<>>
  /\ sizes = NoSizes /\ pct = NotComputed /\ unit_token = NoToken
  /\ call = NoCall /\ passes = NoPasses

UpsertSmall(chunkFails, singleFails) ==
  /\ has_supabase /\ run.pc = "processed"
  /\ Upserted(upsert_to_supabase(staging, run.entries, SmallChunk, chunkFails,
                                 singleFails, uuids))
  /\ faults' = [chunkFails |-> chunkFails, singleFails |-> singleFails]
  /\ UNCHANGED <<config, known_urls_file, products, events, local_files, staging_queue,
                 handled, parsed, text, sizes, pct, unit_token, call, passes>>

NextUpsert ==
  \E chunkFails \in SUBSET (1..((Len(run.entries) + SmallChunk - 1) \div SmallChunk)),
     singleFails \in SUBSET (1..Len(run.entries)) :
       UpsertSmall(chunkFails, singleFails)

SpecUpsert == InitUpsert /\ [][NextUpsert]_vars

\* the alternatives of the three size patterns' unit groups
UnitAlternatives == Range(UNIT_PATTERN) \cup Range(FROM_TO_UNITS) \cup Range(ARROW_UNITS)

Upper(s) == [i \in 1..Len(s) |-> UpperChar(s[i])]

\* What the patterns, compiled with re.IGNORECASE, can capture: each alternative in
\* lower case, in upper case and capitalised; and the absent token.
UnitTokens ==
  {None} \cup UnitAlternatives \cup {Upper(a) : a \in UnitAlternatives}
         \cup {Title(a) : a \in UnitAlternatives}

\* SpecUnit: normalize_unit on a unit token
InitUnit ==
  /\ Quiet /\ run = Idle
  /\ \E t \in UnitTokens : unit_token = [u |-> t, out |-> None]
  /\ call = NoCall /\ passes = NoPasses
  /\ faults = NoFaults /\ parsed = NotParsed /\ text = <<>>
  /\ sizes = NoSizes /\ pct = NotComputed

NormalizeUnit ==
  /\ unit_token.out = None
  /\ unit_token' = [unit_token EXCEPT !.out = Some(normalize_unit(unit_token.u))]
  /\ UNCHANGED <<config, known_urls_file, tables, local_files, staging_queue, run, handled,
                 faults, parsed, text, sizes, pct, call, passes>>

NextUnit == NormalizeUnit

SpecUnit == InitUnit /\ [][NextUnit]_vars

\* Most posts in a list given to process_posts in SpecProcess.
MaxPosts == 3

\* the registries of SpecProcess: no URL, or some of the URLs of two posts
KnownSets == SUBSET {PublicUrl(PostA), PublicUrl(PostN)}

\* SpecProcess: process_posts on a list of posts and a registry
InitProcess ==
  /\ Quiet /\ run = Idle
  /\ \E l \in PostLists(PostSet, MaxPosts), k \in KnownSets :
        call = [NoCall EXCEPT !.posts = l, !.known_urls = k]
  /\ faults = NoFaults /\ parsed = NotParsed /\ text = <<>>
  /\ sizes = NoSizes /\ pct = NotComputed /\ unit_token = NoToken
  /\ passes = NoPasses

Called(out) ==
  [call EXCEPT !.returned = TRUE, !.entries = out.entries, !.new_urls = out.new_urls,
               !.stats = out.stats]

ProcessPosts ==
  /\ ~call.returned
  /\ call' = Called(process_posts(call.posts, call.known_urls))
  /\ UNCHANGED <<config, known_urls_file, tables, local_files, staging_queue, run, handled,
                 faults, parsed, text, sizes, pct, unit_token, passes>>

NextProcess == ProcessPosts

SpecProcess == InitProcess /\ [][NextProcess]_vars

\* Most promotion passes of SpecRetry in which a persistence call fails.
MaxFailedPasses == 2

\* the staging rows of SpecRetry: the entries of EntryPool, written and pending
PendingRows == {Row(e, UuidsDistinct[e.source_url], "pending") : e \in EntryPool}

\* SpecRetry: promotion passes (run_promote_only) repeated on a staging table, some
\* of them with failing persistence calls
InitRetry ==
  /\ feed = {PostA, PostB, PostD}
  /\ script = "public" /\ has_supabase = TRUE /\ uuids = UuidsDistinct
  /\ known_urls_file = <<>>
  /\ staging \in SUBSET PendingRows
  /\ products = <<>> /\ events = <<>>
  /\ local_files = [recent |-> <<>>, backfill |-> <<>>]
  /\ staging_queue = EmptyQueue
  /\ handled = NoHistory
  /\ run = Idle
  /\ faults = NoFaults /\ parsed = NotParsed /\ text = <<>>
  /\ sizes = NoSizes /\ pct = NotComputed /\ unit_token = NoToken
  /\ call = NoCall /\ passes = NoPasses

\* the outcome of a pass in which no call of any entry's try block raises
NoFailure(table) == [u \in {r.source_url : r \in Range(SelectPendingAuto(table))} |-> "none"]

\* the effects of a pass with result res; the script has returned
Retried(res, selectFails) ==
  /\ staging' = res.staging /\ products' = res.products /\ events' = res.events
  /\ run' = [Idle EXCEPT !.promoted = res.promoted, !.attempted = res.attempted,
                         !.flipped = res.flipped, !.failed = res.failed,
                         !.select_failed = selectFails]

\* a pass in which the select or a call of some entry's try block raises
FailingPass(selectFails, outcome) ==
  /\ passes.failed < MaxFailedPasses
  /\ selectFails \/ \E u \in DOMAIN outcome : outcome[u] # "none"
  /\ \E res \in {promote_auto_entries(DB, selectFails, outcome)} : Retried(res, selectFails)
  /\ passes' = [passes EXCEPT !.failed = @ + 1]
  /\ UNCHANGED <<config, known_urls_file, local_files, staging_queue, handled,
                 faults, parsed, text, sizes, pct, unit_token, call>>

\* a pass in which every persistence call succeeds
CleanPass ==
  /\ \E res \in {promote_auto_entries(DB, FALSE, NoFailure(staging))} : Retried(res, FALSE)
  /\ passes' = [passes EXCEPT !.clean = 1 - @]
  /\ UNCHANGED <<config, known_urls_file, local_files, staging_queue, handled,
                 faults, parsed, text, sizes, pct, unit_token, call>>

NextRetry ==
  \/ \E selectFails \in BOOLEAN, outcome \in OutcomesFor(staging) :
        FailingPass(selectFails, outcome)
  \/ CleanPass

\* passes are repeated, and their calls do not fail for ever: passes in which no call
\* fails keep being run
SpecRetry == InitRetry /\ [][NextRetry]_vars /\ WF_vars(CleanPass)

---------------------------------------------------------------------------
(* Properties *)

\* C1: confidence_tier returns auto if and only if fields_found >= 3 and brand is set
\* and explicit_from_to is true; otherwise review if and only if fields_found >= 1;
\* otherwise discard, for every combination of the three signals (SpecTier).
C1_TierDecision ==
  parsed.tier # "none" =>
    LET r      == parsed.result
        isAuto == r.fields_found >= 3 /\ r.brand # None /\ r.explicit_from_to
    IN /\ parsed.tier = "auto" <=> isAuto
       /\ parsed.tier = "review" <=> (~isAuto /\ r.fields_found >= 1)
       /\ parsed.tier = "discard" <=> (~isAuto /\ r.fields_found < 1)

\* three fields and from-to phrasing without a brand were classified review
C1_Witness ==
  /\ parsed.tier = "review"
  /\ parsed.result.fields_found >= 3
  /\ parsed.result.brand = None
  /\ parsed.result.explicit_from_to

\* C2: across scrape runs and promotion passes, runs interrupted before the registry
\* is saved included, a staging entry that is promoted never goes back to pending.
C2_PromotedNeverReverts ==
  [][\A r \in staging :
        r.status = "promoted" =>
          \A q \in staging' : q.source_url = r.source_url => q.status = "promoted"]_vars

\* a run starts: process_posts or the loop of run_scraper has run in this step
RunStarts == run.pc = "idle" /\ run'.pc \in {"processed", "legacy_done"}

\* the starting run emits no entry for these URLs and does not evaluate them
Skips(urls) ==
  \A u \in urls :
     /\ u \notin run'.new_urls
     /\ \A i \in 1..Len(run'.entries) : run'.entries[i].source_url # u

\* C3 as stated: a URL handled in any earlier completed run is skipped as a duplicate
\* in every later run, with no entry emitted and no extraction or classification.
C3_HandledIsSkipped == [][RunStarts => Skips(handled.any)]_vars

\* C3 amended: a URL handled in an earlier completed run that saved the registry
\* (every completed run of reddit_public_scraper.py; a run of reddit_scraper.py
\* unless it is a dry run) is skipped as a duplicate in every later run, with no
\* entry emitted and no extraction or classification.
C3_SavedIsSkipped == [][RunStarts => Skips(handled.kept)]_vars

\* a later run met a URL of the registry and skipped it
C3_Witness ==
  /\ run.pc \in {"processed", "legacy_done"}
  /\ run.stats.skipped_dup > 0
  /\ handled.kept # {}

HasProduct(upc) == \E i \in 1..Len(products) : products[i].upc = upc

HasEvent(upc) == \E i \in 1..Len(events) : events[i].upc = upc

PassDone == run.pc \in {"promoted", "promoted_only"}

\* C4: every entry with status promoted has a Product and at least one Event under
\* its product key, and an entry whose promotion failed in the pass just made (the
\* event insert after a successful product upsert included) is still pending.
C4_PromotedHasProductAndEvent ==
  /\ \A r \in staging : r.status = "promoted" => HasProduct(Upc(r)) /\ HasEvent(Upc(r))
  /\ PassDone => \A u \in run.failed : RowOf(staging, u).status = "pending"

\* the product upsert of an entry succeeded, its event insert failed, it stays pending
C4_Witness ==
  /\ PassDone
  /\ \E r \in staging :
        /\ r.source_url \in run.failed
        /\ r.status = "pending"
        /\ HasProduct(Upc(r))
        /\ ~HasEvent(Upc(r))

\* the entries a promotion pass selects and does not skip
Eligible(table) ==
  {r \in table : /\ r.tier = "auto" /\ r.status = "pending"
                 /\ r.old_size # None /\ r.new_size # None
                 /\ Val(r.old_size) # 0 /\ Val(r.new_size) # 0}

\* a promotion pass has run in this step
PassEnds ==
  /\ run.pc \in {"upserted", "idle"}
  /\ run'.pc \in {"promoted", "promoted_only", "aborted"}

\* C5: a promotion pass in which a persistence call for an entry fails still attempts
\* every eligible entry, finishes normally (only a failing select ends it with an
\* exception), and returns the number of entries whose status it flipped to promoted.
C5_FailureKeepsBatchGoing ==
  [][PassEnds =>
       /\ run'.pc = "aborted" => run'.select_failed
       /\ run'.pc # "aborted" =>
            /\ run'.attempted = {r.source_url : r \in Eligible(staging)}
            /\ run'.promoted =
                 Cardinality({r \in Eligible(staging) :
                                RowOf(staging', r.source_url).status = "promoted"})]_vars

Position(u) == CHOOSE i \in 1..Len(SortedUrls) : SortedUrls[i] = u

\* an entry failed and a later entry of the same pass was promoted
C5_Witness ==
  /\ PassDone
  /\ run.promoted = 1
  /\ \E u \in run.failed, v \in run.flipped :
        Position(u) < Position(v) /\ RowOf(staging, v).status = "promoted"

\* C6: the products table holds at most one record per key after any sequence of
\* promotion passes, and every promotion of one staging entry uses the same key.
C6_OneProductPerKey ==
  /\ \A i, j \in 1..Len(products) : products[i].upc = products[j].upc => i = j
  /\ \A i, j \in 1..Len(events) : events[i].notes = events[j].notes
                                    => events[i].upc = events[j].upc

\* one entry was promoted twice and there is one product under its key
C6_Witness ==
  \E i, j \in 1..Len(events) :
     /\ i < j
     /\ events[i].notes = events[j].notes
     /\ Cardinality({k \in 1..Len(products) : products[k].upc = events[i].upc}) = 1

\* C7: when the result of parse_text, in either scraper, has explicit_from_to true,
\* old_size > new_size and old_unit = new_unit.
C7_ExplicitIsOrdered ==
  (parsed.variant # "none" /\ parsed.result.explicit_from_to) =>
    /\ Val(parsed.result.old_size) > Val(parsed.result.new_size)
    /\ parsed.result.old_unit = parsed.result.new_unit

NoDiscard(entries) == \A i \in 1..Len(entries) : entries[i].tier # "discard"

\* C8: no entry of the list returned by process_posts, of the staging table, of a
\* local staging file or of the staging queue file has tier discard.
C8_DiscardNeverPersisted ==
  /\ NoDiscard(run.entries)
  /\ \A r \in staging : r.tier # "discard"
  /\ NoDiscard(local_files["recent"]) /\ NoDiscard(local_files["backfill"])
  /\ NoDiscard(staging_queue["auto"]) /\ NoDiscard(staging_queue["review"])

\* a run that classified a post as discard has written its entries
C8_Witness ==
  /\ run.stats["discard"] > 0
  /\ \/ run.pc \in {"upserted", "stored"}
     \/ run.pc = "legacy_done" /\ ~run.dry_run

\* the chunk of the entry at position j, and the entries of chunk k
ChunkOf(j) == ((j - 1) \div SmallChunk) + 1

ChunkEntries(k) ==
  SubSeq(run.entries, (k - 1) * SmallChunk + 1, IF k * SmallChunk < Len(run.entries) THEN k * SmallChunk ELSE Len(run.entries))

\* the bulk write of chunk k fails: it raises, or PostgreSQL rejects its duplicate key
ChunkFailed(k) == k \in faults.chunkFails \/ HasDuplicateKey(ChunkEntries(k))

InFailedChunk == {j \in 1..Len(run.entries) : ChunkFailed(ChunkOf(j))}

\* C9: for any pattern of failing chunk writes and failing single writes,
\* upsert_to_supabase retries singly every entry of a failed chunk and no other;
\* the entries of successful chunks and of successful single retries are written
\* and are in the table; those that fail again are skipped; the count returned is
\* the number of entries written (SpecUpsert).
C9_UpsertToleratesFailures ==
  run.pc = "upserted" =>
    /\ run.retried = InFailedChunk
    /\ run.written = ((1..Len(run.entries)) \ InFailedChunk)
                     \cup (InFailedChunk \ faults.singleFails)
    /\ run.upserted = Cardinality(run.written)
    /\ \A j \in run.written : HasRow(staging, run.entries[j].source_url)
    /\ \A r \in staging : \E j \in run.written : run.entries[j].source_url = r.source_url

\* the first chunk failed, its first entry failed again, its second entry and the
\* second chunk were written
C9_Witness ==
  /\ run.pc = "upserted"
  /\ Len(run.entries) > SmallChunk
  /\ 1 \in faults.chunkFails /\ ChunkOf(Len(run.entries)) \notin faults.chunkFails
  /\ 1 \in faults.singleFails /\ 1 \notin run.written
  /\ 2 \in run.written /\ Len(run.entries) \in run.written
  /\ run.upserted = Len(run.entries) - 1

Abs(x) == IF x < 0 THEN 0 - x ELSE x

\* C10: the percentage is round(((old_size - new_size) / old_size) * 100, 2) when
\* old_size > 0 (in hundredths: the nearest to the exact quotient, a tie to the even
\* one) and 0 otherwise; computing it raises for no sizes, zero and negative ones
\* included; for 52 and 46 it is 11.54 (SpecPct).
C10_PctFormula ==
  pct.computed =>
    /\ ~pct.raised
    /\ sizes.old_s > 0 =>
         /\ 2 * Abs(pct.value * sizes.old_s - 10000 * (sizes.old_s - sizes.new_s))
              <= sizes.old_s
         /\ 2 * Abs(pct.value * sizes.old_s - 10000 * (sizes.old_s - sizes.new_s))
              = sizes.old_s => pct.value % 2 = 0
    /\ sizes.old_s <= 0 => pct.value = 0
    /\ (sizes.old_s = 52 /\ sizes.new_s = 46) => pct.value = 1154

\* the percentage of 52 and 46 was computed
C10_Witness ==
  /\ pct.computed /\ ~pct.raised
  /\ sizes.old_s = 52 /\ sizes.new_s = 46
  /\ pct.value = 1154

---------------------------------------------------------------------------
(* The worked example *)

\* the entry the worked example gives for post A
TropicanaEntry ==
  [source_url |-> PublicUrl(PostA), tier |-> "auto", status |-> "pending",
   brand |-> <<"T","r","o","p","i","c","a","n","a">>,
   old_size |-> Some(52), old_unit |-> <<"o","z">>,
   new_size |-> Some(46), new_unit |-> <<"o","z">>,
   old_price |-> None, new_price |-> None,
   explicit_from_to |-> TRUE, fields_found |-> 3]

EventsOf(u) == {i \in 1..Len(events) : events[i].notes = u}

\* C11: in the public scraper, post A, when its URL is not in the registry, passes
\* the duplicate and relevance filters and gives the entry with brand Tropicana,
\* 52 oz -> 46 oz, explicit, fields_found 3, tier auto, status pending; it is staged
\* so; a promotion pass that attempts it without a failing call flips it to promoted
\* and every event of it has pct 11.54 (1154 hundredths) and the sizes 52 and 46.
C11_TropicanaEndToEnd ==
  script = "public" =>
    /\ PublicUrl(PostA) \in run.new_urls =>
         /\ PublicUrl(PostA) \notin run.known_urls
         /\ \E i \in 1..Len(run.entries) : run.entries[i] = TropicanaEntry
    /\ \A r \in staging : r.source_url = PublicUrl(PostA) =>
         /\ r.status \in {"pending", "promoted"}
         /\ r = Row(TropicanaEntry, r.id, r.status)
    /\ \A i \in EventsOf(PublicUrl(PostA)) :
         /\ events[i].pct = 1154
         /\ events[i].old_size = 52 /\ events[i].new_size = 46
    /\ (PassDone /\ PublicUrl(PostA) \in run.attempted \ run.failed) =>
         /\ PublicUrl(PostA) \in run.flipped
         /\ RowOf(staging, PublicUrl(PostA)).status = "promoted"
         /\ EventsOf(PublicUrl(PostA)) # {}

\* post A was processed, staged and promoted in one run
C11_Witness ==
  /\ script = "public" /\ run.pc = "promoted"
  /\ PublicUrl(PostA) \in run.new_urls
  /\ PublicUrl(PostA) \in run.flipped
  /\ RowOf(staging, PublicUrl(PostA)).status = "promoted"
  /\ \E i \in EventsOf(PublicUrl(PostA)) : events[i].pct = 1154

---------------------------------------------------------------------------
(* The explicit phrase in context *)

\* "from 52oz to 46oz"
Phrase5246 == Phrases[1]

\* the token positions at which the phrase starts in a text
StartsOf(phrase, toks) ==
  {p \in 1..Len(toks) : /\ p + Len(phrase) - 1 <= Len(toks)
                        /\ SubSeq(toks, p, p + Len(phrase) - 1) = phrase}

\* the cue positions of all matches of FROM_TO_PATTERN of reddit_public_scraper.py
ExplicitAt(toks) ==
  {i \in 1..Len(toks) :
     FromToAt(FROM_TO_CUES, FROM_TO_UNITS, FROM_TO_CONNECTORS, toks, i) # NoMatch}

Is5246(r) ==
  /\ r.old_size = Some(52) /\ r.new_size = Some(46)
  /\ r.old_unit = <<"o","z">> /\ r.new_unit = <<"o","z">>
  /\ r.explicit_from_to

\* C12 as stated: for any text that contains the phrase "from 52oz to 46oz", whatever
\* precedes or follows it, parse_text yields 52 oz -> 46 oz with explicit_from_to true.
C12_PhraseAnywhere ==
  (parsed.variant = "public" /\ StartsOf(Phrase5246, Spaced(text)) # {})
     => Is5246(parsed.result)

\* The part of C12 that holds: when the phrase "from 52oz to 46oz" is the leftmost
\* match of the explicit directional pattern, whatever follows it, parse_text yields
\* 52 oz -> 46 oz with explicit_from_to true.
PhraseFirstIsFound ==
  (/\ parsed.variant = "public"
   /\ StartsOf(Phrase5246, Spaced(text)) # {}
   /\ Min(ExplicitAt(Spaced(text))) \in StartsOf(Phrase5246, Spaced(text)))
     => Is5246(parsed.result)

\* the phrase comes first and another explicit phrase, with other sizes, follows it
PhraseFirstWitness ==
  /\ parsed.variant = "public"
  /\ 1 \in StartsOf(Phrase5246, Spaced(text))
  /\ \E i \in ExplicitAt(Spaced(text)) :
        /\ i > 1
        /\ FromToAt(FROM_TO_CUES, FROM_TO_UNITS, FROM_TO_CONNECTORS, Spaced(text), i)[1].g1 # 52
  /\ Is5246(parsed.result)

---------------------------------------------------------------------------
(* The implicit step *)

\* the (number, unit) mentions of the parsed text, as reddit_public_scraper.py finds them
Mentions == FindUnits(UNIT_PATTERN, Spaced(text), 1)

FirstMention == Mentions[1]

LastMention == Mentions[Len(Mentions)]

\* what fields_found holds apart from the size signal: 1 for a brand, 1 for two prices
OtherFields(r) ==
  (IF r.brand # None THEN 1 ELSE 0) + (IF r.old_price # None THEN 1 ELSE 0)

NoSizeSignal(r) ==
  /\ r.old_size = None /\ r.new_size = None
  /\ r.old_unit = None /\ r.new_unit = None
  /\ r.fields_found = OtherFields(r)

\* C13: in parse_text of reddit_public_scraper.py, when no explicit size change was
\* recorded and the first and last of two or more mentions differ in normalized unit
\* or are equal in value, no size signal is recorded: both sizes and both units stay
\* unset and fields_found counts only the brand and the price pair.
C13_MismatchIsNoSignal ==
  (/\ parsed.variant = "public"
   /\ ~parsed.result.explicit_from_to
   /\ Len(Mentions) >= 2
   /\ \/ normalize_unit(FirstMention.unit) # normalize_unit(LastMention.unit)
      \/ FirstMention.val = LastMention.val)
     => NoSizeSignal(parsed.result)

\* a text with different values in different units ("40oz ... 12g") was parsed
C13_Witness ==
  /\ parsed.variant = "public"
  /\ ~parsed.result.explicit_from_to
  /\ Len(Mentions) >= 2
  /\ normalize_unit(FirstMention.unit) # normalize_unit(LastMention.unit)
  /\ FirstMention.val # LastMention.val
  /\ NoSizeSignal(parsed.result)

---------------------------------------------------------------------------
(* The explicit step *)

\* the match of FROM_TO_PATTERN or, failing that, of ARROW_PATTERN in the parsed text
PublicMatch ==
  FirstMatch(FromToSearch(FROM_TO_CUES, FROM_TO_UNITS, FROM_TO_CONNECTORS, Spaced(text)),
             Spaced(text))

Larger(a, b) == IF a > b THEN a ELSE b

Smaller(a, b) == IF a > b THEN b ELSE a

\* the explicit change of a match is what the result holds
ExplicitRecorded(r, m) ==
  /\ r.explicit_from_to
  /\ r.fields_found = OtherFields(r) + 2
  /\ r.old_size = Some(Larger(m.g1, m.g3))
  /\ r.new_size = Some(Smaller(m.g1, m.g3))

\* C14 as stated: whenever the explicit directional pattern or, failing that, the arrow
\* pattern matches, parse_text sets explicit_from_to, adds 2 to fields_found, gives the
\* larger matched value to old_size and the smaller to new_size and does not run the
\* implicit step; the implicit step runs only when neither pattern matched.
C14_MatchSetsExplicit ==
  parsed.variant = "public" =>
    /\ PublicMatch # NoMatch => ExplicitRecorded(parsed.result, PublicMatch[1])
    /\ PublicMatch = NoMatch => ~parsed.result.explicit_from_to

\* C14 amended: whenever the explicit directional pattern or, failing that, the arrow
\* pattern matches with two different values, parse_text sets explicit_from_to, adds 2
\* to fields_found, gives the larger matched value to old_size and the smaller to
\* new_size and does not run the implicit step; when the two matched values are equal
\* the match records nothing, explicit_from_to stays false and the implicit step runs
\* as it does when neither pattern matched.
C14_UnequalMatchSetsExplicit ==
  parsed.variant = "public" =>
    /\ (PublicMatch # NoMatch /\ PublicMatch[1].g1 # PublicMatch[1].g3)
         => ExplicitRecorded(parsed.result, PublicMatch[1])
    /\ (PublicMatch = NoMatch \/ PublicMatch[1].g1 = PublicMatch[1].g3)
         => parsed.result =
              PriceStep(ImplicitStep(BrandStep(EmptyResult, KNOWN_BRANDS, text), Spaced(text)),
                        Spaced(text))

\* a backward match was swapped and a later mention, which the implicit step would
\* have taken as an endpoint, was left alone
C14_Witness ==
  /\ parsed.variant = "public"
  /\ PublicMatch # NoMatch
  /\ PublicMatch[1].g1 < PublicMatch[1].g3
  /\ Len(Mentions) >= 3
  /\ LastMention.val \notin {PublicMatch[1].g1, PublicMatch[1].g3}
  /\ normalize_unit(LastMention.unit) = normalize_unit(FirstMention.unit)
  /\ ExplicitRecorded(parsed.result, PublicMatch[1])

\* the explicit step recorded nothing: no match, or a match with equal values
ImplicitRuns == PublicMatch = NoMatch \/ PublicMatch[1].g1 = PublicMatch[1].g3

C16_SingleMentionIsNew ==
  (/\ parsed.variant = "public"
   /\ ImplicitRuns
   /\ Len(Mentions) = 1)
     => /\ parsed.result.new_size = Some(FirstMention.val)
        /\ parsed.result.new_unit = normalize_unit(FirstMention.unit)
        /\ parsed.result.old_size = None
        /\ parsed.result.old_unit = None
        /\ ~parsed.result.explicit_from_to
        /\ parsed.result.fields_found = OtherFields(parsed.result)

\* a text whose only mention is "64oz", with a brand beside it
C16_Witness ==
  /\ parsed.variant = "public"
  /\ Len(Mentions) = 1
  /\ FirstMention.val = 64
  /\ parsed.result.brand # None
  /\ parsed.result.new_size = Some(64) /\ parsed.result.new_unit = <<"o","z">>
  /\ parsed.result.old_size = None
  /\ parsed.result.fields_found = 1

---------------------------------------------------------------------------
(* The unit normalizer *)

\* the enumeration of canonical unit codes
CanonicalUnits ==
  { <<"o","z">>, <<"f","l"," ","o","z">>, <<"l","b">>, <<"g">>, <<"k","g">>, <<"m","l">>,
    <<"l">>, <<"c","t">>, <<"s","h","e","e","t","s">>, <<"r","o","l","l","s">>,
    <<"p","t">>, <<"q","t">>, <<"g","a","l">>, <<"s","q"," ","f","t">> }

\* C17: for every unit token that the size patterns can capture, in any letter case,
\* singular or plural, normalize_unit returns a canonical code, and for an absent
\* token it returns oz.
C17_NormalizedIsCanonical ==
  unit_token.out # None =>
    /\ Val(unit_token.out) \in CanonicalUnits
    /\ unit_token.u = None => Val(unit_token.out) = <<"o","z">>

---------------------------------------------------------------------------
(* The promotion set *)

\* tier auto, status pending and both sizes present, zero included
Promotable(table) ==
  {r \in table : /\ r.tier = "auto" /\ r.status = "pending"
                 /\ r.old_size # None /\ r.new_size # None}

\* a promotion pass ran in this step and none of its persistence calls failed
CleanPassEnds == PassEnds /\ run'.pc # "aborted" /\ run'.failed = {}

\* C18: a promotion pass in which no persistence call fails flips to promoted exactly
\* the entries with tier auto, status pending and both sizes present (zero included);
\* every other entry keeps its status, gets no event, and no product is written under
\* its key unless the key is also that of a promoted entry.
C18_PromotesExactlyTheSized ==
  [][CleanPassEnds =>
       /\ run'.flipped = {r.source_url : r \in Promotable(staging)}
       /\ \A r \in Promotable(staging) : RowOf(staging', r.source_url).status = "promoted"
       /\ \A r \in staging \ Promotable(staging) :
            /\ r \in staging'
            /\ \A i \in 1..Len(events') : events'[i].notes = r.source_url => i <= Len(events)
            /\ (\A q \in Promotable(staging) : Upc(q) # Upc(r)) =>
                  \A i \in 1..Len(products') : products'[i].upc = Upc(r) =>
                     i <= Len(products) /\ products[i] = products'[i]]_vars

---------------------------------------------------------------------------
(* Monotonicity of the classifier *)

\* discard < review < auto
Rank(tier) == IF tier = "auto" THEN 2 ELSE IF tier = "review" THEN 1 ELSE 0

WithFields(r, f) == [r EXCEPT !.fields_found = f]

\* C19: with brand set and explicit_from_to true held fixed, the tier of a result with
\* more fields_found is never lower, in the order discard < review < auto, than the
\* tier of the result with fewer.
C19_TierMonotonic ==
  (/\ parsed.tier # "none"
   /\ IsSet(parsed.result.brand)
   /\ parsed.result.explicit_from_to)
     => \A f1 \in 0..parsed.result.fields_found, f2 \in parsed.result.fields_found..MaxFields :
           /\ Rank(confidence_tier(WithFields(parsed.result, f1))) <= Rank(parsed.tier)
           /\ Rank(parsed.tier) <= Rank(confidence_tier(WithFields(parsed.result, f2)))

\* a result classified review whose tier rises to auto with one more field, and falls
\* to discard with fewer
C19_Witness ==
  /\ parsed.tier = "review"
  /\ IsSet(parsed.result.brand)
  /\ parsed.result.explicit_from_to
  /\ confidence_tier(WithFields(parsed.result, parsed.result.fields_found + 1)) = "auto"
  /\ confidence_tier(WithFields(parsed.result, 0)) = "discard"

---------------------------------------------------------------------------
(* One entry per post *)

\* C20: the entries returned by one call of process_posts hold at most one entry per
\* source_url, whatever the post list, a list with a repeated post included.
C20_OneEntryPerUrl ==
  script = "public" =>
    \A i, j \in 1..Len(run.entries) :
       run.entries[i].source_url = run.entries[j].source_url => i = j

---------------------------------------------------------------------------
(* The counters of process_posts *)

\* C24: after process_posts returns, seen is the number of input posts and is the sum
\* of skipped_dup, no_keyword, auto, review and discard, and the number of returned
\* entries is auto + review.
C24_CountersPartition ==
  call.returned =>
    /\ call.stats.seen = Len(call.posts)
    /\ call.stats.seen = call.stats.skipped_dup + call.stats.no_keyword + call.stats.auto
                         + call.stats.review + call.stats.discard
    /\ Len(call.entries) = call.stats.auto + call.stats.review

\* a call that met a duplicate, a post without keyword and a post that gave an entry
C24_Witness ==
  /\ call.returned
  /\ Len(call.posts) = MaxPosts
  /\ call.stats.skipped_dup = 1
  /\ call.stats.no_keyword + call.stats.discard = 1
  /\ Len(call.entries) = 1

---------------------------------------------------------------------------
(* The weighted count *)

\* 1 for a brand, 2 for an explicit change or 1 for an implicit pair, 1 for a price pair
WeightedCount(r) ==
  (IF r.brand # None THEN 1 ELSE 0)
  + (IF r.explicit_from_to THEN 2 ELSE IF r.old_size # None THEN 1 ELSE 0)
  + (IF r.old_price # None /\ r.new_price # None THEN 1 ELSE 0)

\* C25: for every result of parse_text of reddit_public_scraper.py, fields_found is 1
\* for a brand plus 2 for an explicit change or 1 for an implicit size pair plus 1 for
\* a price pair, hence between 0 and 4, and confidence_tier of the result is auto
\* exactly when brand is set and explicit_from_to is true.
C25_FieldsFoundIsWeightedCount ==
  parsed.variant = "public" =>
    /\ parsed.result.fields_found = WeightedCount(parsed.result)
    /\ parsed.result.fields_found \in 0..4
    /\ parsed.tier = "auto" <=>
         (parsed.result.brand # None /\ parsed.result.explicit_from_to)

\* a text with a brand, an explicit change and two prices: all four fields, tier auto
C25_Witness ==
  /\ parsed.variant = "public"
  /\ parsed.result.brand # None
  /\ parsed.result.explicit_from_to
  /\ parsed.result.old_price # None
  /\ parsed.result.fields_found = 4
  /\ parsed.tier = "auto"

---------------------------------------------------------------------------
(* Registered and stored *)

\* an entry with this source_url is in the staging table or in a local staging file
Stored(u) ==
  \/ HasRow(staging, u)
  \/ \E i \in 1..Len(local_files.recent) : local_files.recent[i].source_url = u
  \/ \E i \in 1..Len(local_files.backfill) : local_files.backfill[i].source_url = u

\* run_recent or run_backfill saves the registry in this step and ends
RunCompletes ==
  /\ script = "public"
  /\ run.pc \in {"promoted", "stored"}
  /\ run'.pc = "idle"
  /\ run.new_urls \subseteq handled'.kept

\* C22: when a scrape run completes, whatever writes of upsert_to_supabase failed, every
\* URL the run adds to the registry whose post was tiered auto or review has its entry
\* in the staging table or in the local staging file.
C22_RegisteredIsStored ==
  [][RunCompletes =>
       \A i \in 1..Len(run.entries) :
          /\ run.entries[i].source_url \in run.new_urls
          /\ Stored(run.entries[i].source_url)]_vars

---------------------------------------------------------------------------
(* Product keys of distinct entries *)

\* C23: two staging entries with different ids never write under the same product
\* key: the events of one key all come from one entry, and no promoted entry's product
\* has been replaced by that of another entry.
C23_DistinctEntriesDistinctKeys ==
  /\ \A i, j \in 1..Len(events) :
        events[i].upc = events[j].upc => events[i].notes = events[j].notes
  /\ \A r \in staging, i \in 1..Len(products) :
        (r.status = "promoted" /\ products[i].upc = Upc(r)) => products[i].brand = r.brand


---------------------------------------------------------------------------
(* Retried promotion *)

\* the urls of the rows of SpecRetry
PoolUrls == {e.source_url : e \in EntryPool}

\* the row of url u is pending, tiered auto and has both sizes (zero included)
AwaitsPromotion(u) == HasRow(staging, u) /\ RowOf(staging, u) \in Promotable(staging)

\* the row of url u is pending, tiered auto and has both sizes, neither of them zero
AwaitsNonZero(u) == HasRow(staging, u) /\ RowOf(staging, u) \in Eligible(staging)

IsPromoted(u) == HasRow(staging, u) /\ RowOf(staging, u).status = "promoted"

\* C21 (first half): an entry whose promotion attempt failed in a pass is still pending
\* after the pass and is in the selection of the next pass.
C21_FailedStaysPending ==
  [][\A u \in run'.failed :
        /\ HasRow(staging', u) /\ RowOf(staging', u).status = "pending"
        /\ \E i \in 1..Len(SelectPendingAuto(staging')) :
              SelectPendingAuto(staging')[i].source_url = u]_vars

\* a pass has just failed to promote an entry, which is still selected
C21_FailedWitness ==
  /\ passes.failed > 0
  /\ \E u \in run.failed : AwaitsNonZero(u)
  /\ Len(events) > 0

\* C21: under repeated passes whose persistence calls eventually succeed, every entry
\* with tier auto, status pending and both sizes present is eventually promoted.
C21_PendingEventuallyPromoted ==
  \A u \in PoolUrls : AwaitsPromotion(u) ~> IsPromoted(u)

\* C21 for the entries the pass does not skip: every entry with tier auto, status
\* pending and both sizes present and non-zero is eventually promoted.
C21_NonZeroEventuallyPromoted ==
  \A u \in PoolUrls : AwaitsNonZero(u) ~> IsPromoted(u)

\* a clean pass has run and has left the entry with a size of zero pending
C21_ZeroLeftPending ==
  /\ run.select_failed = FALSE /\ run.failed = {} /\ run.promoted > 0
  /\ \E u \in PoolUrls : AwaitsPromotion(u) /\ ~AwaitsNonZero(u)

====
